---------------------------- MODULE Spec2Model ----------------------------
(***************************************************************************)
(* A state-machine model of the LSP client runtime of chan.rs (the crate   *)
(* rooted at src/src/lsp.rs): the Listener (listener.rs), the three IO     *)
(* tasks (io.rs), the Subscription handle (utils.rs) and the facade        *)
(* (process.rs).                                                           *)
(*                                                                         *)
(* Tasks are tokio tasks.  JoinHandle::abort only requests cancellation:   *)
(* the future of an aborted task is dropped (running its drop guards) when *)
(* the runtime next reaches the task, so abort is modelled as a request    *)
(* (abort_req) followed by a separate cancellation step per task.          *)
(* Time is not modelled: the request timer may fire at any moment while    *)
(* the request is waiting.                                                 *)
(***************************************************************************)
EXTENDS Integers, Sequences, FiniteSets, TLC

(***************************************************************************)
(* Bounds of the model.                                                    *)
(***************************************************************************)
MaxCalls == 2        \* request() calls issued over a run
MaxFrames == 2       \* frames the reader loop reads over a run
MaxRegs == 2         \* on_notification / on_request / on_io calls over a run
MaxNotifies == 1     \* notify() calls over a run
MaxKills == 2        \* kill() calls over a run
MaxFeeds == 2        \* chunks the subprocess writes to its stdout over a run

Callers == 1..MaxCalls

\* Methods of client-to-server requests (T::METHOD of a request::Request).
Methods == {"initialize", "shutdown"}

\* Methods of inbound notifications / server-to-client requests.
HandlerMethods == {"window/showMessage", "workspace/configuration"}

\* Caller-supplied closures: every registration call passes a closure of
\* its own, named by the ordinal of the call.
Closures == 1..MaxRegs

(***************************************************************************)
(* RequestId (lsp.rs): Int(i32) or Str(String).  NoId stands for an absent *)
(* id (Option::None).  Str ids are numbered.                               *)
(***************************************************************************)
IntId(i) == [tag |-> "Int", n |-> i]
StrId(k) == [tag |-> "Str", n |-> k]
NoId == [tag |-> "None", n |-> 0]

EmptyMap == [k \in {} |-> 0]

MapInsert(map, key, val) ==
    [k \in (DOMAIN map) \cup {key} |-> IF k = key THEN val ELSE map[k]]

MapRemove(map, key) == [k \in (DOMAIN map) \ {key} |-> map[k]]

VARIABLES
    next_id,                \* Listener.next_id (AtomicI32)
    response_handlers,      \* Arc<Mutex<Option<HashMap<RequestId, ResponseHandler>>>>
    notification_handlers,  \* Arc<Mutex<HashMap<&str, NotificationHandler>>>
    io_handlers,            \* Arc<Mutex<HashMap<i32, IoHandler>>>
    request_queue,          \* messages in the request_tx/request_rx channel
    written,                \* messages written to the subprocess's stdin
    notification_queue,     \* messages in the notification_tx/notification_rx channel
    task,                   \* each task: "running", "ended" (returned or dropped),
                            \* or "failed" (the reader, on a frame-read failure)
    abort_req,              \* tasks on which JoinHandle::abort was called
    process,                \* the child process
    call,                   \* the request() calls
    oneshot,                \* the oneshot channel of each request() call
    frames_read,            \* frames read by the reader loop so far
    subs,                   \* the Subscriptions handed out
    last_reg,               \* the latest on_notification / on_request call
    reg_count,              \* registrations attempted so far
    invocations,            \* caller closures invoked by the dispatch loop
    responders,             \* responses held by the tasks on_request's handler spawned
    enqueued,               \* the messages request_tx.send accepted, in order, less
                            \* those dropped unwritten together with request_rx
    notifies,               \* the send_notification calls that have returned
    kill_results,           \* the results of the kill() calls
    wire                    \* the subprocess's stdout pipe: the bytes written to it
                            \* and not yet read, whether it was closed, the chunks
                            \* the subprocess wrote and the bodies the reader took

vars == <<next_id, response_handlers, notification_handlers, io_handlers,
          request_queue, written, notification_queue, task, abort_req,
          process, call, oneshot, frames_read, subs, last_reg, reg_count,
          invocations, responders, enqueued, notifies, kill_results, wire>>

Tasks == {"stdin", "stdout", "stderr", "output"}

\* The Response a value came from: its id and whether its error was set.
NoFrame == [id |-> NoId, error |-> FALSE]

IdleCall == [pc |-> "idle", id |-> NoId, method |-> "none",
             handle_response |-> "none", outcome |-> "none", from |-> NoFrame]

EmptyOneshot == [kind |-> "empty", from |-> NoFrame]
ClosedOneshot == [kind |-> "closed", from |-> NoFrame]
DroppedOneshot == [kind |-> "dropped", from |-> NoFrame]

\* Nothing written to the subprocess's stdout yet.
EmptyWire == [stream |-> <<>>, eof |-> FALSE, fed |-> <<>>, bodies |-> <<>>]

NoReg == [op |-> "none", method |-> "none", f |-> 0, result |-> "none"]

(***************************************************************************)
(* LanguageServer::new: fresh channels, empty tables (the pending table is *)
(* Some(empty)), the four tasks spawned, the counter at its default 0.     *)
(***************************************************************************)
Init ==
    /\ next_id = 0
    /\ response_handlers = [some |-> TRUE, map |-> EmptyMap]
    /\ notification_handlers = EmptyMap
    /\ io_handlers = EmptyMap
    /\ request_queue = <<>>
    /\ written = <<>>
    /\ notification_queue = <<>>
    /\ task = [t \in Tasks |-> "running"]
    /\ abort_req = {}
    /\ process = "running"
    /\ call = [c \in Callers |-> IdleCall]
    /\ oneshot = [c \in Callers |-> EmptyOneshot]
    /\ frames_read = 0
    /\ subs = <<>>
    /\ last_reg = NoReg
    /\ reg_count = 0
    /\ invocations = <<>>
    /\ responders = {}
    /\ enqueued = <<>>
    /\ notifies = <<>>
    /\ kill_results = <<>>
    /\ wire = EmptyWire

\* The receiving half of a channel lives in the task that owns it.
RequestRxOpen == task["stdin"] = "running"
NotificationRxOpen == task["output"] = "running"
NotificationTxOpen == task["stdout"] = "running"

\* request_tx.send(msg): the message joins the queue while request_rx is
\* alive; otherwise send returns a SendError and nothing is queued.
Enqueue(queue, msg) == IF RequestRxOpen THEN Append(queue, msg) ELSE queue


Range(map) == {map[k] : k \in DOMAIN map}

(***************************************************************************)
(* response_handlers.lock().take(): the Option becomes None and the map is *)
(* dropped.  Every stored callback is dropped uninvoked, which drops the   *)
(* oneshot Sender it captured: the Receiver then resolves with RecvError.  *)
(***************************************************************************)
TakenTable == [some |-> FALSE, map |-> EmptyMap]

DropCallbacks(os, cs) ==
    [c \in Callers |->
        IF c \in cs /\ os[c].kind = "empty" THEN ClosedOneshot ELSE os[c]]

\* Mutant of ClearResponseHandlers: the map is taken and leaked, no
\* callback is dropped.
ClearResponseHandlersLeaks ==
    /\ response_handlers' = TakenTable
    /\ oneshot' = oneshot

ClearResponseHandlers ==
    /\ response_handlers' = TakenTable
    /\ oneshot' = DropCallbacks(oneshot, Range(response_handlers.map))

(***************************************************************************)
(* Listener::request, up to the select!.  The three synchronous steps are  *)
(* separate actions: other threads of the runtime run between them.        *)
(***************************************************************************)
\* The request type T each caller uses.
MethodOf(c) == IF c % 2 = 1 THEN "initialize" ELSE "shutdown"

\* Mutant of RequestAlloc: the counter is read but not advanced.
RequestAllocKeepsCounter(c) ==
    /\ call[c].pc = "idle"
    /\ \A d \in Callers : d < c => call[d].pc # "idle"
    /\ call' = [call EXCEPT ![c] = [@ EXCEPT !.pc = "insert",
                                             !.id = IntId(next_id),
                                             !.method = MethodOf(c)]]
    /\ UNCHANGED <<next_id, response_handlers, notification_handlers,
                   io_handlers, request_queue, written, notification_queue,
                   task, abort_req, process, oneshot, frames_read, subs,
                   last_reg, reg_count, invocations>>
    /\ UNCHANGED <<responders, enqueued, notifies, kill_results, wire>>

\* next_id.fetch_add(1) and the serialisation of the LSPRequest.  Callers
\* are numbered in the order in which they enter request().
RequestAlloc(c) ==
    /\ call[c].pc = "idle"
    /\ \A d \in Callers : d < c => call[d].pc # "idle"
    /\ call' = [call EXCEPT ![c] = [@ EXCEPT !.pc = "insert",
                                             !.id = IntId(next_id),
                                             !.method = MethodOf(c)]]
    /\ next_id' = next_id + 1
    /\ UNCHANGED <<response_handlers, notification_handlers, io_handlers,
                   request_queue, written, notification_queue, task,
                   abort_req, process, oneshot, frames_read, subs, last_reg,
                   reg_count, invocations>>
    /\ UNCHANGED <<responders, enqueued, notifies, kill_results, wire>>

\* The key under which request() stores its callback.
InsertKey(c) == call[c].id

\* Mutant of RequestInsert: a table that is None is replaced by a fresh map
\* (get_or_insert_with) and the callback is stored in it.
RequestInsertRevives(c) ==
    /\ call[c].pc = "insert"
    /\ LET key == InsertKey(c)
           map == response_handlers.map
           displaced == IF key \in DOMAIN map THEN {map[key]} ELSE {}
       IN /\ response_handlers' =
                 [some |-> TRUE, map |-> MapInsert(map, key, c)]
          /\ oneshot' = DropCallbacks(oneshot, displaced \ {c})
          /\ call' = [call EXCEPT ![c] = [@ EXCEPT !.pc = "send",
                                            !.handle_response = "ok"]]
    /\ UNCHANGED <<next_id, notification_handlers, io_handlers, request_queue,
                   written, notification_queue, task, abort_req, process,
                   frames_read, subs, last_reg, reg_count, invocations>>
    /\ UNCHANGED <<responders, enqueued, notifies, kill_results, wire>>

\* lock().as_mut().ok_or_else(Server shutdown).map(insert).  A callback the
\* insert displaces is returned in handle_response and dropped with it; when
\* the table is None the closure that owns the Sender is dropped unused.
RequestInsert(c) ==
    /\ call[c].pc = "insert"
    /\ IF response_handlers.some
       THEN LET key == InsertKey(c)
                map == response_handlers.map
                displaced == IF key \in DOMAIN map THEN {map[key]} ELSE {}
            IN /\ response_handlers' =
                      [response_handlers EXCEPT !.map = MapInsert(map, key, c)]
               /\ oneshot' = DropCallbacks(oneshot, displaced \ {c})
               /\ call' = [call EXCEPT ![c] = [@ EXCEPT !.pc = "send",
                                                 !.handle_response = "ok"]]
       ELSE /\ response_handlers' = response_handlers
            /\ oneshot' = [oneshot EXCEPT ![c] = ClosedOneshot]
            /\ call' = [call EXCEPT ![c] = [@ EXCEPT !.pc = "send",
                                              !.handle_response = "shutdown"]]
    /\ UNCHANGED <<next_id, notification_handlers, io_handlers, request_queue,
                   written, notification_queue, task, abort_req, process,
                   frames_read, subs, last_reg, reg_count, invocations>>
    /\ UNCHANGED <<responders, enqueued, notifies, kill_results, wire>>

\* Mutant of RequestMessage: the envelope is a Response with the call's id.
RequestMessageAsResponse(c) ==
    [kind |-> "response", id |-> call[c].id, method |-> "none",
     value |-> "result"]

RequestMessage(c) ==
    [kind |-> "request", id |-> call[c].id, method |-> call[c].method,
     value |-> "params"]

\* request_tx.send(message): performed whatever handle_response is; its
\* own error is discarded by send.unwrap_or_default().
RequestSend(c) ==
    /\ call[c].pc = "send"
    /\ request_queue' = Enqueue(request_queue, RequestMessage(c))
    /\ enqueued' = Enqueue(enqueued, RequestMessage(c))
    /\ call' = [call EXCEPT ![c] = [@ EXCEPT !.pc = "waiting"]]
    /\ UNCHANGED <<next_id, response_handlers, notification_handlers,
                   io_handlers, written, notification_queue, task, abort_req,
                   process, oneshot, frames_read, subs, last_reg, reg_count,
                   invocations>>
    /\ UNCHANGED <<responders, notifies, kill_results, wire>>

\* handle_response.unwrap_or_default() and send.unwrap_or_default() discard
\* both errors; the outcome is what the oneshot Receiver resolves to.
ResponseOutcome(c) ==
    IF oneshot[c].kind = "closed" THEN "Closed" ELSE oneshot[c].kind

\* select!: the response_handle branch.  `from` keeps the Response whose
\* data the call returns.
RequestComplete(c) ==
    /\ call[c].pc = "waiting"
    /\ oneshot[c].kind # "empty"
    /\ call' = [call EXCEPT ![c] = [@ EXCEPT !.pc = "done",
                                      !.outcome = ResponseOutcome(c),
                                      !.from = oneshot[c].from]]
    /\ oneshot' = [oneshot EXCEPT ![c] = DroppedOneshot]
    /\ UNCHANGED <<next_id, response_handlers, notification_handlers,
                   io_handlers, request_queue, written, notification_queue,
                   task, abort_req, process, frames_read, subs,
                   last_reg, reg_count, invocations>>
    /\ UNCHANGED <<responders, enqueued, notifies, kill_results, wire>>

\* Mutant of RequestTimeout: the timer is only looked at once the response
\* side has woken the call.
RequestTimeoutAfterResponse(c) ==
    /\ call[c].pc = "waiting"
    /\ oneshot[c].kind # "empty"
    /\ call' = [call EXCEPT ![c] = [@ EXCEPT !.pc = "done",
                                      !.outcome = "Timeout"]]
    /\ oneshot' = [oneshot EXCEPT ![c] = DroppedOneshot]
    /\ UNCHANGED <<next_id, response_handlers, notification_handlers,
                   io_handlers, request_queue, written, notification_queue,
                   task, abort_req, process, frames_read, subs,
                   last_reg, reg_count, invocations>>
    /\ UNCHANGED <<responders, enqueued, notifies, kill_results, wire>>

\* select!: the timeout_task branch.  bail!(Lsp Request time out); the
\* pending table is not touched.  The Receiver stays in the detached
\* response_handle task, where nothing the caller sees reads it: it counts
\* as dropped from here on.
RequestTimeout(c) ==
    /\ call[c].pc = "waiting"
    /\ call' = [call EXCEPT ![c] = [@ EXCEPT !.pc = "done",
                                      !.outcome = "Timeout"]]
    /\ oneshot' = [oneshot EXCEPT ![c] = DroppedOneshot]
    /\ UNCHANGED <<next_id, response_handlers, notification_handlers,
                   io_handlers, request_queue, written, notification_queue,
                   task, abort_req, process, frames_read, subs,
                   last_reg, reg_count, invocations>>
    /\ UNCHANGED <<responders, enqueued, notifies, kill_results, wire>>

(***************************************************************************)
(* IO::stdin_task, the writer loop.                                        *)
(***************************************************************************)
\* for handler in io_handlers.lock().values_mut() { handler(kind, ..) }:
\* the calls one round makes, every closure in the table with the kind.
IoRound(kind) == [kind |-> kind, fs |-> Range(io_handlers)]

\* The rounds of the three loops.  IOKind is { In, Out, Err }: the writer
\* passes IOKind::In with every message it is about to write, the reader
\* IOKind::Out with every body that is valid UTF-8, stderr IOKind::Err with
\* every line that is valid UTF-8.  A body or a line that is not valid
\* UTF-8 is reported to no observer.
NoRound == [kind |-> "none", fs |-> {}]

StdinRound == IoRound("In")

StdoutRound(frame) ==
    IF frame.shape = "nonutf8" THEN NoRound ELSE IoRound("Out")

StderrLines == {"text", "nonutf8"}

StderrRound(line) == IF line = "nonutf8" THEN NoRound ELSE IoRound("Err")

\* Mutant of StdinWrite: the frame goes out twice.
StdinWriteTwice ==
    /\ task["stdin"] = "running"
    /\ request_queue # <<>>
    /\ written' = Append(Append(written, Head(request_queue)),
                         Head(request_queue))
    /\ request_queue' = Tail(request_queue)
    /\ UNCHANGED <<next_id, response_handlers, notification_handlers,
                   io_handlers, notification_queue, task, abort_req, process,
                   call, oneshot, frames_read, subs, last_reg, reg_count,
                   invocations>>
    /\ UNCHANGED <<responders, enqueued, notifies, kill_results, wire>>

\* One iteration: recv, the io handlers, the framed write, the flush.
StdinWrite ==
    /\ task["stdin"] = "running"
    /\ request_queue # <<>>
    /\ written' = Append(written, Head(request_queue))
    /\ request_queue' = Tail(request_queue)
    /\ UNCHANGED <<next_id, response_handlers, notification_handlers,
                   io_handlers, notification_queue, task, abort_req, process,
                   call, oneshot, frames_read, subs, last_reg, reg_count,
                   invocations>>
    /\ UNCHANGED <<responders, enqueued, notifies, kill_results, wire>>

\* A write_all/flush fails (the pipe is closed): `?` ends the task, the
\* drop guard takes the pending table and request_rx is dropped.
StdinWriteFail ==
    /\ task["stdin"] = "running"
    /\ request_queue # <<>>
    /\ task' = [task EXCEPT !["stdin"] = "ended"]
    /\ request_queue' = <<>>
    /\ ClearResponseHandlers
    /\ UNCHANGED <<next_id, notification_handlers, io_handlers, written,
                   notification_queue, abort_req, process, call, frames_read,
                   subs, last_reg, reg_count, invocations>>
    /\ enqueued' = written
    /\ UNCHANGED <<responders, notifies, kill_results, wire>>

\* The runtime cancels the aborted writer: its future is dropped.
StdinTaskAbort ==
    /\ "stdin" \in abort_req
    /\ task["stdin"] = "running"
    /\ task' = [task EXCEPT !["stdin"] = "ended"]
    /\ request_queue' = <<>>
    /\ ClearResponseHandlers
    /\ UNCHANGED <<next_id, notification_handlers, io_handlers, written,
                   notification_queue, abort_req, process, call, frames_read,
                   subs, last_reg, reg_count, invocations>>
    /\ enqueued' = written
    /\ UNCHANGED <<responders, notifies, kill_results, wire>>

(***************************************************************************)
(* Inbound frames.  A body is a Response shape (no method; jsonrpc and id  *)
(* present), a message shape (a method: AnyNotification, tried first),     *)
(* valid UTF-8 that is neither, or not valid UTF-8.                        *)
(***************************************************************************)
FrameIds == {IntId(i) : i \in 0..(MaxCalls - 1)} \cup {StrId(0)}

ResponseFrames ==
    [shape : {"response"}, id : FrameIds, method : {"none"},
     result : {"absent", "obj", "junk"}, error : {FALSE},
     params : {"none"}]
    \cup
    [shape : {"response"}, id : FrameIds, method : {"none"},
     result : {"absent"}, error : {TRUE}, params : {"none"}]

MessageFrames ==
    [shape : {"message"}, id : {NoId, IntId(0)}, method : HandlerMethods,
     result : {"absent"}, error : {FALSE}, params : {"ok", "bad"}]

OtherFrames ==
    [shape : {"garbage", "nonutf8"}, id : {NoId}, method : {"none"},
     result : {"absent"}, error : {FALSE}, params : {"none"}]

\* The JSON text a result shape of each request method deserializes from.
ResultShape(m) == IF m = "shutdown" THEN "null" ELSE "obj"

\* Mutant of HandlerArg: the error branch is missing.
HandlerArgIgnoresError(frame) ==
    IF frame.result # "absent" THEN [ok |-> TRUE, text |-> frame.result]
    ELSE [ok |-> TRUE, text |-> "null"]

\* Mutant of HandlerArg: a Response with neither field is handed over as
\* an error.
HandlerArgAbsentIsError(frame) ==
    IF frame.error THEN [ok |-> FALSE, text |-> "error"]
    ELSE IF frame.result # "absent" THEN [ok |-> TRUE, text |-> frame.result]
    ELSE [ok |-> FALSE, text |-> "error"]

\* What stdout_task passes to the callback: error first, then result, then
\* the literal null.
HandlerArg(frame) ==
    IF frame.error THEN [ok |-> FALSE, text |-> "error"]
    ELSE IF frame.result # "absent" THEN [ok |-> TRUE, text |-> frame.result]
    ELSE [ok |-> TRUE, text |-> "null"]

\* The callback stored by request(): what it sends on the oneshot.
CallbackResponse(m, arg) ==
    IF arg.ok
    THEN IF arg.text = ResultShape(m) THEN "Ok" ELSE "Decode"
    ELSE "Rpc"

\* Mutant of LookupKey: the reader takes any pending entry, whatever the
\* id of the Response.
LookupAnyPending(frame) ==
    IF DOMAIN response_handlers.map # {}
    THEN CHOOSE k \in DOMAIN response_handlers.map : TRUE
    ELSE frame.id

\* The key stdout_task removes from the pending table.
LookupKey(frame) == frame.id

\* Mutant of CompleteResponse: a Response that finds no entry drops every
\* pending callback.
CompleteResponseOrDropAll(frame) ==
    LET key == LookupKey(frame)
        map == response_handlers.map
    IN IF response_handlers.some /\ key \in DOMAIN map
       THEN LET c == map[key]
            IN /\ response_handlers' =
                      [response_handlers EXCEPT !.map = MapRemove(map, key)]
               /\ oneshot' =
                      [oneshot EXCEPT ![c] =
                          IF @.kind = "empty"
                          THEN [kind |-> CallbackResponse(call[c].method,
                                                          HandlerArg(frame)),
                                from |-> [id |-> frame.id,
                                          error |-> frame.error]]
                          ELSE @]
       ELSE ClearResponseHandlers

\* Mutant of CompleteResponse: the callback is called through a reference
\* and its entry stays in the table.
CompleteResponseKeepsEntry(frame) ==
    LET key == LookupKey(frame)
        map == response_handlers.map
    IN IF response_handlers.some /\ key \in DOMAIN map
       THEN LET c == map[key]
            IN /\ response_handlers' = response_handlers
               /\ oneshot' =
                      [oneshot EXCEPT ![c] =
                          IF @.kind = "empty"
                          THEN [kind |-> CallbackResponse(call[c].method,
                                                          HandlerArg(frame)),
                                from |-> [id |-> frame.id,
                                          error |-> frame.error]]
                          ELSE @]
       ELSE UNCHANGED <<response_handlers, oneshot>>

\* The Response branch of stdout_task: remove the entry and run it.
CompleteResponse(frame) ==
    LET key == LookupKey(frame)
        map == response_handlers.map
    IN IF response_handlers.some /\ key \in DOMAIN map
       THEN LET c == map[key]
            IN /\ response_handlers' =
                      [response_handlers EXCEPT !.map = MapRemove(map, key)]
               /\ oneshot' =
                      [oneshot EXCEPT ![c] =
                          IF @.kind = "empty"
                          THEN [kind |-> CallbackResponse(call[c].method,
                                                          HandlerArg(frame)),
                                from |-> [id |-> frame.id,
                                          error |-> frame.error]]
                          ELSE @]
       ELSE UNCHANGED <<response_handlers, oneshot>>

AnyNotification(frame) ==
    [method |-> frame.method, id |-> frame.id, params |-> frame.params]

\* A message in the notification channel, tagged with the position of its
\* frame on the subprocess's output stream.
Arrived(msg, n) ==
    [method |-> msg.method, id |-> msg.id, params |-> msg.params, seq |-> n]

(***************************************************************************)
(* IO::stdout_task, the reader loop: one iteration per frame.              *)
(***************************************************************************)
StdoutFrame(frame) ==
    /\ task["stdout"] = "running"
    /\ frames_read < MaxFrames
    /\ frames_read' = frames_read + 1
    /\ CASE frame.shape = "message" ->
              /\ IF NotificationRxOpen
                 THEN /\ notification_queue' =
                             Append(notification_queue,
                                    Arrived(AnyNotification(frame),
                                            frames_read + 1))
                      /\ task' = task
                 ELSE /\ notification_queue' = notification_queue
                      /\ task' = [task EXCEPT !["stdout"] = "ended"]
              /\ UNCHANGED <<response_handlers, oneshot>>
         [] frame.shape = "response" ->
              /\ CompleteResponse(frame)
              /\ UNCHANGED <<notification_queue, task>>
         [] frame.shape = "garbage" ->
              UNCHANGED <<response_handlers, oneshot, notification_queue, task>>
         [] frame.shape = "nonutf8" ->
              /\ task' = [task EXCEPT !["stdout"] = "ended"]
              /\ UNCHANGED <<response_handlers, oneshot, notification_queue>>
    /\ UNCHANGED <<next_id, notification_handlers, io_handlers, request_queue,
                   written, abort_req, process, call, subs, last_reg,
                   reg_count, invocations>>
    /\ UNCHANGED <<responders, enqueued, notifies, kill_results>>

\* A frame read off the pipe, its bytes left out of the model.
StdoutRead(frame) == StdoutFrame(frame) /\ UNCHANGED wire

(***************************************************************************)
(* The two serde_json::from_slice calls of the reader loop, field by       *)
(* field.  A body is what a JSON parser sees of it: whether it is UTF-8    *)
(* text, whether it is a JSON object, and for each field whether it is     *)
(* absent or which kind of value it holds.  serde ignores the fields a     *)
(* struct does not name.                                                   *)
(***************************************************************************)
JsonObjects ==
    [utf8 : {TRUE}, json : {TRUE}, jsonrpc : {"absent", "str"},
     method : {"absent", "str", "number"},
     id : {"absent", "null", "int", "float"},
     result : {"absent", "obj"}, error : {"absent", "valid"}]

NotJson ==
    [utf8 : BOOLEAN, json : {FALSE}, jsonrpc : {"absent"},
     method : {"absent"}, id : {"absent"}, result : {"absent"},
     error : {"absent"}]

Bodies == JsonObjects \cup NotJson

\* AnyNotification: method is a String; id is an Option<RequestId> with a
\* default, RequestId an untagged enum of i32 and String; params is any
\* Value.
AnyNotificationParses(body) ==
    /\ body.json
    /\ body.method = "str"
    /\ body.id \in {"absent", "null", "int"}

\* AnyResponse: jsonrpc is a &str and id a RequestId, both required; result
\* is an Option of raw JSON; error an Option<LSPError> with a default.
AnyResponseParses(body) ==
    /\ body.json
    /\ body.jsonrpc = "str"
    /\ body.id = "int"
    /\ body.error \in {"absent", "null", "valid"}

\* The id an integer id field holds, and the method a string method field
\* names.
BodyId(body) == IF body.id = "int" THEN IntId(0) ELSE NoId

\* if let Ok(..) = from_slice::<AnyNotification>, else if let Ok(..) =
\* from_slice::<AnyResponse>, else the warning with from_utf8(&buffer)?.
Deserialize(body) ==
    IF AnyNotificationParses(body)
    THEN [shape |-> "message", id |-> BodyId(body),
          method |-> "window/showMessage", result |-> "absent",
          error |-> FALSE, params |-> "ok"]
    ELSE IF AnyResponseParses(body)
    THEN [shape |-> "response", id |-> BodyId(body), method |-> "none",
          result |-> IF body.error = "valid" THEN "absent" ELSE body.result,
          error |-> body.error = "valid", params |-> "none"]
    ELSE [shape |-> IF body.utf8 THEN "garbage" ELSE "nonutf8", id |-> NoId,
          method |-> "none", result |-> "absent", error |-> FALSE,
          params |-> "none"]

\* One iteration of the reader loop on a frame with this body.
StdoutReadBody(body) == StdoutRead(Deserialize(body))

\* read_header / the Content-Length parse / read_exact fails: `?` ends the
\* task and drops notification_tx.  "failed" tells this end from the others.
StdoutFail ==
    /\ task["stdout"] = "running"
    /\ task' = [task EXCEPT !["stdout"] = "failed"]
    /\ UNCHANGED <<next_id, response_handlers, notification_handlers,
                   io_handlers, request_queue, written, notification_queue,
                   abort_req, process, call, oneshot, frames_read, subs,
                   last_reg, reg_count, invocations>>
    /\ UNCHANGED <<responders, enqueued, notifies, kill_results, wire>>

(***************************************************************************)
(* Listener::handle_output, the dispatch loop, and the handlers stored by  *)
(* on_notification and on_request.                                         *)
(***************************************************************************)
\* Mutant of ResponseMessage: the response carries no id.
ResponseWithoutId(id, value) ==
    [kind |-> "response", id |-> NoId, method |-> "none", value |-> value]

ResponseMessage(id, value) ==
    [kind |-> "response", id |-> id, method |-> "none", value |-> value]

\* A response waiting in a spawned task, with the position of the frame it
\* answers.
Responder(msg, n) == [msg |-> msg, seq |-> n]

\* Mutant of NotificationHandlerRuns: the closure ignores a message that
\* carries an id.
NotificationHandlerSkipsRequests(h, msg) ==
    msg.params = "ok" /\ msg.id = NoId

\* The closure on_notification stores: f runs when the params deserialize.
NotificationHandlerRuns(h, msg) == msg.params = "ok"

\* The closure on_request stores: f runs when there is an id and the params
\* deserialize.
RequestHandlerRuns(h, msg) == msg.id # NoId /\ msg.params = "ok"

\* Mutant of NotificationRecv: the newest queued message is received.
NotificationRecvNewest(queue) ==
    [msg |-> queue[Len(queue)], rest |-> SubSeq(queue, 1, Len(queue) - 1)]

\* notification_rx.recv(): the oldest queued message leaves the channel.
NotificationRecv(queue) == [msg |-> Head(queue), rest |-> Tail(queue)]

\* Mutant of RunHandler: the caller's closure is entered a second time
\* while its first call is running.
RunHandlerTwice(h, msg, ok) ==
    LET ran == [f |-> h.f, method |-> msg.method, id |-> msg.id,
                seq |-> msg.seq,
                returns |-> IF h.kind = "notification" THEN "none"
                            ELSE IF ok THEN "Ok" ELSE "Err"]
    IN IF h.kind = "notification"
       THEN /\ invocations' = IF NotificationHandlerRuns(h, msg)
                              THEN Append(Append(invocations, ran), ran)
                              ELSE invocations
            /\ UNCHANGED <<request_queue, enqueued, responders>>
       ELSE IF msg.id = NoId
       THEN UNCHANGED <<invocations, request_queue, enqueued, responders>>
       ELSE IF RequestHandlerRuns(h, msg)
       THEN /\ invocations' = Append(Append(invocations, ran), ran)
            /\ responders' = responders \cup
                   {Responder(ResponseMessage(msg.id,
                                  IF ok THEN "result" ELSE "error"),
                              msg.seq)}
            /\ UNCHANGED <<request_queue, enqueued>>
       ELSE /\ request_queue' =
                   Enqueue(request_queue, ResponseMessage(msg.id, "error"))
            /\ enqueued' =
                   Enqueue(enqueued, ResponseMessage(msg.id, "error"))
            /\ UNCHANGED <<invocations, responders>>

\* handler(message.id, params) for the handler found under the lock.  `ok`
\* is whether the future the caller's request closure returns resolves to
\* Ok.  on_request's handler sends the error response of a params decode
\* failure itself and leaves the response of f to the task it spawns.
RunHandler(h, msg, ok) ==
    LET ran == [f |-> h.f, method |-> msg.method, id |-> msg.id,
                seq |-> msg.seq,
                returns |-> IF h.kind = "notification" THEN "none"
                            ELSE IF ok THEN "Ok" ELSE "Err"]
    IN IF h.kind = "notification"
       THEN /\ invocations' = IF NotificationHandlerRuns(h, msg)
                              THEN Append(invocations, ran)
                              ELSE invocations
            /\ UNCHANGED <<request_queue, enqueued, responders>>
       ELSE IF msg.id = NoId
       THEN UNCHANGED <<invocations, request_queue, enqueued, responders>>
       ELSE IF RequestHandlerRuns(h, msg)
       THEN /\ invocations' = Append(invocations, ran)
            /\ responders' = responders \cup
                   {Responder(ResponseMessage(msg.id,
                                  IF ok THEN "result" ELSE "error"),
                              msg.seq)}
            /\ UNCHANGED <<request_queue, enqueued>>
       ELSE /\ request_queue' =
                   Enqueue(request_queue, ResponseMessage(msg.id, "error"))
            /\ enqueued' =
                   Enqueue(enqueued, ResponseMessage(msg.id, "error"))
            /\ UNCHANGED <<invocations, responders>>

\* Mutant of NoHandler: a request without a handler is answered with an
\* error response.
NoHandlerRepliesError(msg) ==
    /\ request_queue' =
           IF msg.id # NoId
           THEN Enqueue(request_queue, ResponseMessage(msg.id, "error"))
           ELSE request_queue
    /\ enqueued' =
           IF msg.id # NoId
           THEN Enqueue(enqueued, ResponseMessage(msg.id, "error"))
           ELSE enqueued
    /\ UNCHANGED <<invocations, responders>>

\* No handler for message.method: the lock is dropped, nothing else.
NoHandler(msg) ==
    UNCHANGED <<invocations, request_queue, enqueued, responders>>

\* One iteration: recv, lookup under the lock, the handler, yield_now.
HandleOutput(ok) ==
    /\ task["output"] = "running"
    /\ notification_queue # <<>>
    /\ LET recv == NotificationRecv(notification_queue)
           msg == recv.msg
       IN /\ notification_queue' = recv.rest
          /\ IF msg.method \in DOMAIN notification_handlers
             THEN RunHandler(notification_handlers[msg.method], msg, ok)
             ELSE NoHandler(msg)
    /\ UNCHANGED <<next_id, response_handlers, notification_handlers,
                   io_handlers, written, task, abort_req, process, call,
                   oneshot, frames_read, subs, last_reg, reg_count>>
    /\ UNCHANGED <<notifies, kill_results, wire>>

\* The task spawned by on_request's handler: result.await, then
\* request_tx.send(response).ok().
ResponderSend(r) ==
    /\ r \in responders
    /\ responders' = responders \ {r}
    /\ request_queue' = Enqueue(request_queue, r.msg)
    /\ enqueued' = Enqueue(enqueued, r.msg)
    /\ UNCHANGED <<next_id, response_handlers, notification_handlers,
                   io_handlers, written, notification_queue, task, abort_req,
                   process, call, oneshot, frames_read, subs, last_reg,
                   reg_count, invocations, notifies, kill_results, wire>>

\* recv returns None (the reader dropped notification_tx and the channel is
\* drained): the loop ends and the drop guard takes the pending table.
HandleOutputClosed ==
    /\ task["output"] = "running"
    /\ notification_queue = <<>>
    /\ ~NotificationTxOpen
    /\ task' = [task EXCEPT !["output"] = "ended"]
    /\ ClearResponseHandlers
    /\ UNCHANGED <<next_id, notification_handlers, io_handlers, request_queue,
                   written, notification_queue, abort_req, process, call,
                   frames_read, subs, last_reg, reg_count, invocations>>
    /\ UNCHANGED <<responders, enqueued, notifies, kill_results, wire>>

\* The runtime cancels the aborted dispatch loop: its future is dropped.
OutputTaskAbort ==
    /\ "output" \in abort_req
    /\ task["output"] = "running"
    /\ task' = [task EXCEPT !["output"] = "ended"]
    /\ notification_queue' = <<>>
    /\ ClearResponseHandlers
    /\ UNCHANGED <<next_id, notification_handlers, io_handlers, request_queue,
                   written, abort_req, process, call, frames_read, subs,
                   last_reg, reg_count, invocations>>
    /\ UNCHANGED <<responders, enqueued, notifies, kill_results, wire>>

(***************************************************************************)
(* LanguageServer::kill = IO::kill then Listener::kill.  IO::kill aborts   *)
(* stdin_task (twice) and stderr_task and start_kills the child;           *)
(* Listener::kill aborts output_task and locks and unlocks each table.     *)
(***************************************************************************)
IoKillAborts == {"stdin", "stderr"}
ListenerKillAborts == {"output"}

\* Mutant of StartKill: killing a child that is no longer running fails.
StartKillFailsOnceDead(p) == IF p = "running" THEN "ok" ELSE "err"

\* process.lock().start_kill().  Nothing ever waits on the Child, so it is
\* never reaped: whether it runs, has exited or was killed before, its pid
\* names a live or zombie process and the SIGKILL is delivered.
StartKill(p) == "ok"

\* `?` on start_kill: when it fails, IO::kill returns the error after its
\* aborts and Listener::kill is not called.
Kill ==
    /\ Len(kill_results) < MaxKills
    /\ LET r == StartKill(process)
       IN /\ kill_results' = Append(kill_results, r)
          /\ abort_req' = abort_req \cup IoKillAborts
                              \cup (IF r = "ok" THEN ListenerKillAborts ELSE {})
          /\ process' = IF r = "ok" /\ process = "running"
                        THEN "killed" ELSE process
    /\ UNCHANGED <<next_id, response_handlers, notification_handlers,
                   io_handlers, request_queue, written, notification_queue,
                   task, call, oneshot, frames_read, subs, last_reg,
                   reg_count, invocations>>
    /\ UNCHANGED <<responders, enqueued, notifies, wire>>

\* The subprocess exits on its own.
ProcessExit ==
    /\ process = "running"
    /\ process' = "exited"
    /\ UNCHANGED <<next_id, response_handlers, notification_handlers,
                   io_handlers, request_queue, written, notification_queue,
                   task, abort_req, call, oneshot, frames_read, subs,
                   last_reg, reg_count, invocations, responders, enqueued,
                   notifies, kill_results, wire>>

(***************************************************************************)
(* Registration: Listener::on_notification, on_request, on_io, and the     *)
(* Subscription they return (utils.rs).                                    *)
(***************************************************************************)
NotificationSub(m) ==
    [kind |-> "Notification", method |-> m, id |-> -1, bound |-> TRUE,
     live |-> TRUE]

IoSub(id) ==
    [kind |-> "Io", method |-> "none", id |-> id, bound |-> TRUE,
     live |-> TRUE]

\* Mutant of RegisterResult: the assert is missing.
RegisterResultNoAssert(had_prev) == "ok"

\* assert!(prev_handler.is_none()) after the insert.
RegisterResult(had_prev) == IF had_prev THEN "panic" ELSE "ok"

\* The insert into notification_handlers, then the assert on what it
\* displaced; the Subscription is built only when the assert passes.
Register(op, kind, m) ==
    /\ reg_count < MaxRegs
    /\ reg_count' = reg_count + 1
    /\ notification_handlers' =
           MapInsert(notification_handlers, m,
                     [kind |-> kind, f |-> reg_count + 1])
    /\ LET result == RegisterResult(m \in DOMAIN notification_handlers)
       IN /\ last_reg' = [op |-> op, method |-> m, f |-> reg_count + 1,
                          result |-> result]
          /\ subs' = IF result = "ok"
                     THEN Append(subs, NotificationSub(m))
                     ELSE subs
    /\ UNCHANGED <<next_id, response_handlers, io_handlers, request_queue,
                   written, notification_queue, task, abort_req, process,
                   call, oneshot, frames_read, invocations>>
    /\ UNCHANGED <<responders, enqueued, notifies, kill_results, wire>>

OnNotification(m) == Register("on_notification", "notification", m)

OnRequest(m) == Register("on_request", "request", m)

\* Mutant of OnIo: the key is read from the counter without advancing it.
OnIoKeepsCounter ==
    /\ reg_count < MaxRegs
    /\ reg_count' = reg_count + 1
    /\ next_id' = next_id
    /\ io_handlers' = MapInsert(io_handlers, next_id, reg_count + 1)
    /\ subs' = Append(subs, IoSub(next_id))
    /\ last_reg' = [op |-> "on_io", method |-> "none", f |-> reg_count + 1,
                    result |-> "ok"]
    /\ UNCHANGED <<response_handlers, notification_handlers, request_queue,
                   written, notification_queue, task, abort_req, process,
                   call, oneshot, frames_read, invocations>>
    /\ UNCHANGED <<responders, enqueued, notifies, kill_results, wire>>

\* on_io: the key comes from the counter request() uses.
OnIo ==
    /\ reg_count < MaxRegs
    /\ reg_count' = reg_count + 1
    /\ next_id' = next_id + 1
    /\ io_handlers' = MapInsert(io_handlers, next_id, reg_count + 1)
    /\ subs' = Append(subs, IoSub(next_id))
    /\ last_reg' = [op |-> "on_io", method |-> "none", f |-> reg_count + 1,
                    result |-> "ok"]
    /\ UNCHANGED <<response_handlers, notification_handlers, request_queue,
                   written, notification_queue, task, abort_req, process,
                   call, oneshot, frames_read, invocations>>
    /\ UNCHANGED <<responders, enqueued, notifies, kill_results, wire>>

\* Mutant of Detach: detaching also removes the entry from its table.
DetachRemovesEntry(s) ==
    /\ s \in DOMAIN subs
    /\ subs[s].live
    /\ subs[s].bound
    /\ subs' = [subs EXCEPT ![s] = [@ EXCEPT !.bound = FALSE]]
    /\ notification_handlers' =
           IF subs[s].kind = "Notification"
           THEN MapRemove(notification_handlers, subs[s].method)
           ELSE notification_handlers
    /\ io_handlers' =
           IF subs[s].kind = "Io"
           THEN MapRemove(io_handlers, subs[s].id)
           ELSE io_handlers
    /\ UNCHANGED <<next_id, response_handlers, request_queue, written,
                   notification_queue, task, abort_req, process, call,
                   oneshot, frames_read, last_reg, reg_count, invocations>>
    /\ UNCHANGED <<responders, enqueued, notifies, kill_results, wire>>

\* Subscription::detach: the table reference becomes None.
Detach(s) ==
    /\ s \in DOMAIN subs
    /\ subs[s].live
    /\ subs[s].bound
    /\ subs' = [subs EXCEPT ![s] = [@ EXCEPT !.bound = FALSE]]
    /\ UNCHANGED <<next_id, response_handlers, notification_handlers,
                   io_handlers, request_queue, written, notification_queue,
                   task, abort_req, process, call, oneshot, frames_read,
                   last_reg, reg_count, invocations>>
    /\ UNCHANGED <<responders, enqueued, notifies, kill_results, wire>>

\* A Subscription goes out of scope.  The enum has no Drop impl: only its
\* Arc / Weak reference to the table is released.
DropSubscription(s) ==
    /\ s \in DOMAIN subs
    /\ subs[s].live
    /\ subs' = [subs EXCEPT ![s] = [@ EXCEPT !.live = FALSE]]
    /\ UNCHANGED <<next_id, response_handlers, notification_handlers,
                   io_handlers, request_queue, written, notification_queue,
                   task, abort_req, process, call, oneshot, frames_read,
                   last_reg, reg_count, invocations>>
    /\ UNCHANGED <<responders, enqueued, notifies, kill_results, wire>>

\* Mutant of RemoveNotificationHandler: the entry of every other method is
\* removed, that of the method itself is kept.
RemoveOtherHandlers(m) ==
    /\ notification_handlers' =
           [k \in (DOMAIN notification_handlers) \cap {m} |->
               notification_handlers[k]]
    /\ last_reg' = [op |-> "remove_notification_handler", method |-> m,
                    f |-> 0, result |-> "ok"]
    /\ UNCHANGED <<next_id, response_handlers, io_handlers, request_queue,
                   written, notification_queue, task, abort_req, process,
                   call, oneshot, frames_read, subs, reg_count, invocations,
                   responders, enqueued, notifies, kill_results, wire>>

\* remove_notification_handler::<T>(): notification_handlers.remove(METHOD).
RemoveNotificationHandler(m) ==
    /\ notification_handlers' = MapRemove(notification_handlers, m)
    /\ last_reg' = [op |-> "remove_notification_handler", method |-> m,
                    f |-> 0, result |-> "ok"]
    /\ UNCHANGED <<next_id, response_handlers, io_handlers, request_queue,
                   written, notification_queue, task, abort_req, process,
                   call, oneshot, frames_read, subs, reg_count, invocations,
                   responders, enqueued, notifies, kill_results, wire>>

\* has_notification_handler::<T>(): notification_handlers.contains_key(METHOD).
HasNotificationHandler(m) == m \in DOMAIN notification_handlers

(***************************************************************************)
(* Listener::send_notification (LanguageServer::notify).                   *)
(***************************************************************************)
NotificationMessage ==
    [kind |-> "notification", id |-> NoId, method |-> "initialized",
     value |-> "params"]

\* Mutant of NotifyResult: the result of send is ignored.
NotifyResultIgnoresSend == "Ok"

\* request_tx.send(message)?: Ok when the message was queued, the SendError
\* otherwise.
NotifyResult == IF RequestRxOpen THEN "Ok" ELSE "SendError"

\* reader: the state of the reader loop when the call was made.
Notify ==
    /\ Len(notifies) < MaxNotifies
    /\ notifies' = Append(notifies, [result |-> NotifyResult,
                                     reader |-> task["stdout"]])
    /\ request_queue' = Enqueue(request_queue, NotificationMessage)
    /\ enqueued' = Enqueue(enqueued, NotificationMessage)
    /\ UNCHANGED <<next_id, response_handlers, notification_handlers,
                   io_handlers, written, notification_queue, task, abort_req,
                   process, call, oneshot, frames_read, subs, last_reg,
                   reg_count, invocations, responders, kill_results, wire>>

(***************************************************************************)
(* I/O observers.  Each loop calls every closure of io_handlers under the  *)
(* table's lock, inside the task's future.  A closure that panics unwinds  *)
(* the task: the runtime catches the panic at the task boundary and the    *)
(* task is finished, its locals dropped on the way.                        *)
(***************************************************************************)
\* The writer: the received message is lost, the drop guard takes the
\* pending table and request_rx is dropped.
StdinObserverPanic ==
    /\ task["stdin"] = "running"
    /\ request_queue # <<>>
    /\ io_handlers # EmptyMap
    /\ task' = [task EXCEPT !["stdin"] = "ended"]
    /\ request_queue' = <<>>
    /\ ClearResponseHandlers
    /\ enqueued' = written
    /\ UNCHANGED <<next_id, notification_handlers, io_handlers, written,
                   notification_queue, abort_req, process, call, frames_read,
                   subs, last_reg, reg_count, invocations, responders,
                   notifies, kill_results, wire>>

\* The reader: the frame (a valid UTF-8 body) is lost and notification_tx
\* is dropped.
StdoutObserverPanic ==
    /\ task["stdout"] = "running"
    /\ frames_read < MaxFrames
    /\ io_handlers # EmptyMap
    /\ frames_read' = frames_read + 1
    /\ task' = [task EXCEPT !["stdout"] = "ended"]
    /\ UNCHANGED <<next_id, response_handlers, notification_handlers,
                   io_handlers, request_queue, written, notification_queue,
                   abort_req, process, call, oneshot, subs, last_reg,
                   reg_count, invocations, responders, enqueued, notifies,
                   kill_results, wire>>

(***************************************************************************)
(* Locks around caller code.  handle_output calls the handler inside the   *)
(* block that owns the guard of notification_handlers.lock(), and each     *)
(* loop of io.rs calls the observers inside                                *)
(* `for handler in io_handlers.lock().values_mut()`, whose guard lives as  *)
(* long as the loop.  The tables are parking_lot mutexes, which are not    *)
(* reentrant: caller code that locks the table its caller holds waits for  *)
(* its own thread and never returns; the task stays where it is, with the  *)
(* guard.  on_notification and on_request lock notification_handlers,      *)
(* on_io locks io_handlers; Subscription::detach and dropping a            *)
(* Subscription lock nothing.                                              *)
(***************************************************************************)
HandlerTableCalls == {"on_notification", "on_request"}

\* Whether the closure stored under the message's method reaches the
\* caller's f.
CallerCodeRuns(msg) ==
    /\ msg.method \in DOMAIN notification_handlers
    /\ LET h == notification_handlers[msg.method]
       IN IF h.kind = "notification"
          THEN NotificationHandlerRuns(h, msg)
          ELSE RequestHandlerRuns(h, msg)

\* One iteration of handle_output whose handler calls `inner` on the
\* connection: recv, lookup under the lock, the handler, the inner lock().
HandleOutputReenters(inner) ==
    /\ inner \in HandlerTableCalls
    /\ task["output"] = "running"
    /\ notification_queue # <<>>
    /\ LET recv == NotificationRecv(notification_queue)
       IN /\ CallerCodeRuns(recv.msg)
          /\ notification_queue' = recv.rest
    /\ task' = [task EXCEPT !["output"] = "deadlocked"]
    /\ UNCHANGED <<next_id, response_handlers, notification_handlers,
                   io_handlers, request_queue, written, abort_req, process,
                   call, oneshot, frames_read, subs, last_reg, reg_count,
                   invocations, responders, enqueued, notifies, kill_results,
                   wire>>

\* One iteration of stdin_task with an observer that calls on_io: recv, the
\* observer under the lock, the inner lock(); nothing is written.
StdinObserverReenters ==
    /\ task["stdin"] = "running"
    /\ request_queue # <<>>
    /\ io_handlers # EmptyMap
    /\ request_queue' = Tail(request_queue)
    /\ task' = [task EXCEPT !["stdin"] = "deadlocked"]
    /\ UNCHANGED <<next_id, response_handlers, notification_handlers,
                   io_handlers, written, notification_queue, abort_req,
                   process, call, oneshot, frames_read, subs, last_reg,
                   reg_count, invocations, responders, enqueued, notifies,
                   kill_results, wire>>

\* Whether a lock() on the table returns: no task sits on its guard.
NotificationHandlersFree == task["output"] # "deadlocked"

IoHandlersFree == task["stdin"] # "deadlocked"

(***************************************************************************)
(* IO::stderr_task.  A line it reads goes to the observers and to the      *)
(* caller's capture buffer, neither of which is state of the model; the    *)
(* model keeps how the loop ends.                                          *)
(***************************************************************************)
StderrEnds ==
    /\ task["stderr"] = "running"
    /\ task' = [task EXCEPT !["stderr"] = "ended"]
    /\ UNCHANGED <<next_id, response_handlers, notification_handlers,
                   io_handlers, request_queue, written, notification_queue,
                   abort_req, process, call, oneshot, frames_read, subs,
                   last_reg, reg_count, invocations, responders, enqueued,
                   notifies, kill_results, wire>>

\* An observer panics on a line of stderr.
StderrObserverPanic == io_handlers # EmptyMap /\ StderrEnds

\* The runtime cancels the aborted stderr loop.
StderrTaskAbort == "stderr" \in abort_req /\ StderrEnds

\* read_until returns 0 (the pipe is closed): return Ok(()).
StderrEof == process # "running" /\ StderrEnds

(***************************************************************************)
(* The framing codec.  A byte is a one-character string; InvalidByte       *)
(* stands for a byte that occurs in no UTF-8 text.                         *)
(***************************************************************************)
CONTENT_LEN_HEADER ==
    <<"C", "o", "n", "t", "e", "n", "t", "-", "L", "e", "n", "g", "t", "h",
      ":", " ">>

HEADER_DELIMITER == <<"\r", "\n", "\r", "\n">>

InvalidByte == "0xFF"

DecimalDigits == <<"0", "1", "2", "3", "4", "5", "6", "7", "8", "9">>

\* write!(content_len_buffer, "{}", n): the decimal digits of n, no sign,
\* no leading zero.
RECURSIVE Decimal(_)
Decimal(n) ==
    IF n < 10 THEN <<DecimalDigits[n + 1]>>
    ELSE Append(Decimal(n \div 10), DecimalDigits[(n % 10) + 1])

\* Mutant of EncodeFrame: the delimiter is counted into the length.
EncodeFrameCountsDelimiter(message) ==
    CONTENT_LEN_HEADER \o Decimal(Len(message) + Len(HEADER_DELIMITER))
        \o HEADER_DELIMITER \o message

\* The four write_all calls of the writer loop: the token, the byte length
\* of the message, the delimiter, the message.
EncodeFrame(message) ==
    CONTENT_LEN_HEADER \o Decimal(Len(message)) \o HEADER_DELIMITER \o message

EndsWith(buffer, suffix) ==
    /\ Len(buffer) >= Len(suffix)
    /\ SubSeq(buffer, Len(buffer) - Len(suffix) + 1, Len(buffer)) = suffix

StartsWith(line, prefix) ==
    /\ Len(line) >= Len(prefix)
    /\ SubSeq(line, 1, Len(prefix)) = prefix

\* reader.read_until(b'\n', buffer): the number of bytes it appends, the
\* newline included; everything left when the stream ends without one.
ReadUntilNewline(stream) ==
    IF \E i \in 1..Len(stream) : stream[i] = "\n"
    THEN CHOOSE i \in 1..Len(stream) :
            /\ stream[i] = "\n"
            /\ \A j \in 1..(i - 1) : stream[j] # "\n"
    ELSE Len(stream)

\* read_header: lines are appended to the buffer until it ends with the
\* delimiter; a read of 0 bytes is the error.
RECURSIVE read_header(_, _)
read_header(stream, buffer) ==
    IF EndsWith(buffer, HEADER_DELIMITER)
    THEN [ok |-> TRUE, buffer |-> buffer, rest |-> stream]
    ELSE LET n == ReadUntilNewline(stream)
         IN IF n = 0
            THEN [ok |-> FALSE, buffer |-> buffer, rest |-> stream]
            ELSE read_header(SubSeq(stream, n + 1, Len(stream)),
                             buffer \o SubSeq(stream, 1, n))

\* std::str::from_utf8(..).is_ok()
IsUtf8(bytes) == \A i \in 1..Len(bytes) : bytes[i] # InvalidByte

\* header.split('\n'): the pieces between the newlines, in order.
RECURSIVE Split(_)
Split(text) ==
    LET n == ReadUntilNewline(text)
    IN IF n = 0 THEN <<text>>
       ELSE IF text[n] # "\n" THEN <<text>>
       ELSE <<SubSeq(text, 1, n - 1)>> \o Split(SubSeq(text, n + 1, Len(text)))

WhiteSpace == {" ", "\t", "\n", "\r"}

\* str::trim_end
RECURSIVE TrimEnd(_)
TrimEnd(text) ==
    IF text # <<>> /\ text[Len(text)] \in WhiteSpace
    THEN TrimEnd(SubSeq(text, 1, Len(text) - 1))
    ELSE text

IsDigit(byte) == \E d \in 1..10 : DecimalDigits[d] = byte

DigitValue(byte) == (CHOOSE d \in 1..10 : DecimalDigits[d] = byte) - 1

RECURSIVE DigitsValue(_, _)
DigitsValue(digits, acc) ==
    IF digits = <<>> THEN acc
    ELSE DigitsValue(Tail(digits), acc * 10 + DigitValue(Head(digits)))

\* Mutant of ParseUsize: a text that is not a number reads as 0.
ParseUsizeOrZero(text) ==
    LET digits == IF text # <<>> /\ text[1] = "+" THEN Tail(text) ELSE text
    IN IF digits = <<>> \/ \E i \in 1..Len(digits) : ~IsDigit(digits[i])
       THEN [ok |-> TRUE, value |-> 0]
       ELSE [ok |-> TRUE, value |-> DigitsValue(digits, 0)]

\* str::parse::<usize>: a leading "+" is skipped, then every byte has to
\* be a digit and there has to be one.  (The digit strings here stay far
\* below usize::MAX, where parse reports the overflow as an error.)
ParseUsize(text) ==
    LET digits == IF text # <<>> /\ text[1] = "+" THEN Tail(text) ELSE text
    IN IF digits = <<>> \/ \E i \in 1..Len(digits) : ~IsDigit(digits[i])
       THEN [ok |-> FALSE, value |-> 0]
       ELSE [ok |-> TRUE, value |-> DigitsValue(digits, 0)]

\* The first line that starts with the token, the token stripped, the end
\* trimmed, parsed.
ContentLen(header) ==
    LET lines == Split(header)
        found == {i \in 1..Len(lines) : StartsWith(lines[i], CONTENT_LEN_HEADER)}
    IN IF found = {}
       THEN [ok |-> FALSE, why |-> "Invalid LSP header", value |-> 0]
       ELSE LET i == CHOOSE k \in found : \A l \in found : k <= l
                text == SubSeq(lines[i], Len(CONTENT_LEN_HEADER) + 1,
                               Len(lines[i]))
                parsed == ParseUsize(TrimEnd(text))
            IN IF parsed.ok
               THEN [ok |-> TRUE, why |-> "none", value |-> parsed.value]
               ELSE [ok |-> FALSE, why |-> "ParseIntError", value |-> 0]

\* Mutant of read_exact: the last two bytes of the slice are left unread.
read_exact_short(stream, n) ==
    IF Len(stream) < n
    THEN [ok |-> FALSE, buffer |-> <<>>, rest |-> <<>>]
    ELSE LET m == IF n >= 2 THEN n - 2 ELSE n
         IN [ok |-> TRUE, buffer |-> SubSeq(stream, 1, m),
             rest |-> SubSeq(stream, n + 1, Len(stream))]

\* buffer.resize(n, 0); read_exact(&mut buffer): exactly n bytes, or the
\* UnexpectedEof error when the stream ends first.
read_exact(stream, n) ==
    IF Len(stream) < n
    THEN [ok |-> FALSE, buffer |-> <<>>, rest |-> <<>>]
    ELSE [ok |-> TRUE, buffer |-> SubSeq(stream, 1, n),
          rest |-> SubSeq(stream, n + 1, Len(stream))]

NoBody(why, at_eof) ==
    [kind |-> "error", why |-> why, at_eof |-> at_eof, body |-> <<>>,
     rest |-> <<>>]

\* What one iteration of the reader loop takes off the stream: the body of
\* one frame and the bytes after it, or the error `?` returns.  at_eof: the
\* error is the end of the stream (the read waits while the pipe is open).
ReadFrame(stream) ==
    LET head == read_header(stream, <<>>)
    IN IF ~head.ok THEN NoBody("Could not read header", TRUE)
       ELSE IF ~IsUtf8(head.buffer) THEN NoBody("Utf8Error", FALSE)
       ELSE LET len == ContentLen(head.buffer)
            IN IF ~len.ok THEN NoBody(len.why, FALSE)
               ELSE LET body == read_exact(head.rest, len.value)
                    IN IF ~body.ok THEN NoBody("UnexpectedEof", TRUE)
                       ELSE [kind |-> "frame", why |-> "none",
                             at_eof |-> FALSE, body |-> body.buffer,
                             rest |-> body.rest]

\* {"jsonrpc":"2.0","id":0,"result":{}}
InitializeOkBody ==
    <<"{", "\"", "j", "s", "o", "n", "r", "p", "c", "\"", ":", "\"", "2",
      ".", "0", "\"", ",", "\"", "i", "d", "\"", ":", "0", ",", "\"", "r",
      "e", "s", "u", "l", "t", "\"", ":", "{", "}", "}">>

Count(bytes, byte) == Cardinality({i \in 1..Len(bytes) : bytes[i] = byte})

\* A JSON object closes every brace it opens: no text that fails this is
\* deserialized by serde_json::from_slice.
BracesClosed(bytes) ==
    /\ bytes # <<>>
    /\ bytes[1] = "{"
    /\ bytes[Len(bytes)] = "}"
    /\ Count(bytes, "{") = Count(bytes, "}")

\* The bodies of this model that deserialize, with what they deserialize
\* to.
JsonBodies ==
    {[bytes |-> InitializeOkBody,
      frame |-> [shape |-> "response", id |-> IntId(0), method |-> "none",
                 result |-> "obj", error |-> FALSE, params |-> "none"]]}

\* The two serde_json::from_slice calls of the reader loop on a body.
Classify(body) ==
    IF ~IsUtf8(body)
    THEN [shape |-> "nonutf8", id |-> NoId, method |-> "none",
          result |-> "absent", error |-> FALSE, params |-> "none"]
    ELSE IF BracesClosed(body) /\ \E j \in JsonBodies : j.bytes = body
    THEN (CHOOSE j \in JsonBodies : j.bytes = body).frame
    ELSE [shape |-> "garbage", id |-> NoId, method |-> "none",
          result |-> "absent", error |-> FALSE, params |-> "none"]

\* What the subprocess writes to its stdout in one go: a body framed as the
\* writer frames one, or bytes of its own.
Framed(body) == [framed |-> TRUE, body |-> body, bytes |-> EncodeFrame(body)]

Raw(bytes) == [framed |-> FALSE, body |-> <<>>, bytes |-> bytes]

Header(line) == CONTENT_LEN_HEADER \o line \o HEADER_DELIMITER

TestBodies ==
    {<<>>, <<"a">>, HEADER_DELIMITER,
     CONTENT_LEN_HEADER \o <<"1">> \o HEADER_DELIMITER \o <<"a">>,
     InitializeOkBody}

\* The frame of the scenario with the length it declares: 34, two short of
\* the 36 bytes of its body.
ShortDeclaredFrame == Header(<<"3", "4">>) \o InitializeOkBody

RawChunks ==
    {\* the stream ends before the delimiter
     <<"a">>,
     CONTENT_LEN_HEADER \o <<"1", "\r", "\n">>,
     CONTENT_LEN_HEADER \o <<"1", "\n", "\n", "a">>,
     \* no line starts with the token
     HEADER_DELIMITER,
     <<"c", "o", "n", "t", "e", "n", "t", "-", "l", "e", "n", "g", "t", "h",
       ":", " ", "1">> \o HEADER_DELIMITER \o <<"a">>,
     <<" ">> \o Header(<<"1">>) \o <<"a">>,
     \* the value is not a number
     Header(<<>>),
     Header(<<"-", "1">>) \o <<"a">>,
     Header(<<"x">>) \o <<"a">>,
     Header(<<"1", "x">>) \o <<"a">>,
     Header(<<" ", "1">>) \o <<"a">>,
     Header(<<"+">>) \o <<"a">>,
     \* headers the reader accepts
     Header(<<"+", "1">>) \o <<"a">>,
     Header(<<"1", " ">>) \o <<"a">>,
     Header(<<"0", "1">>) \o <<"a">>,
     <<"A", ":", "b", "\r", "\n">> \o Header(<<"1">>) \o <<"a">>,
     \* the body is cut short, and the body is longer than declared
     Header(<<"2">>) \o <<"a">>,
     ShortDeclaredFrame}

Chunks == {Framed(b) : b \in TestBodies} \cup {Raw(b) : b \in RawChunks}

\* The subprocess writes a chunk to its stdout.
ServerWrites(chunk) ==
    /\ Len(wire.fed) < MaxFeeds
    /\ ~wire.eof
    /\ wire' = [wire EXCEPT !.stream = @ \o chunk.bytes,
                            !.fed = Append(@, chunk)]
    /\ UNCHANGED <<next_id, response_handlers, notification_handlers,
                   io_handlers, request_queue, written, notification_queue,
                   task, abort_req, process, call, oneshot, frames_read, subs,
                   last_reg, reg_count, invocations, responders, enqueued,
                   notifies, kill_results>>

\* The subprocess closes its stdout.
StdoutCloses ==
    /\ ~wire.eof
    /\ wire' = [wire EXCEPT !.eof = TRUE]
    /\ UNCHANGED <<next_id, response_handlers, notification_handlers,
                   io_handlers, request_queue, written, notification_queue,
                   task, abort_req, process, call, oneshot, frames_read, subs,
                   last_reg, reg_count, invocations, responders, enqueued,
                   notifies, kill_results>>

\* One iteration of the reader loop on the bytes of the pipe: the frame is
\* taken off the stream and its body goes through the rest of the loop.
StdoutReadBytes ==
    LET r == ReadFrame(wire.stream)
    IN /\ r.kind = "frame"
       /\ StdoutFrame(Classify(r.body))
       /\ wire' = [wire EXCEPT !.stream = r.rest,
                               !.bodies = Append(@, r.body)]

\* The iteration fails to take a frame off the stream; at the end of the
\* bytes written so far the read waits until the pipe is closed.
StdoutReadFails ==
    LET r == ReadFrame(wire.stream)
    IN /\ r.kind = "error"
       /\ r.at_eof => wire.eof
       /\ StdoutFail

(***************************************************************************)
(* Specifications.  Spec: the request / response core.  SpecReg: the       *)
(* handler tables, Subscriptions and the dispatch of inbound messages.     *)
(***************************************************************************)
CoreFrames == ResponseFrames \cup OtherFrames

Next ==
    \/ \E c \in Callers : RequestAlloc(c)
    \/ \E c \in Callers : RequestInsert(c)
    \/ \E c \in Callers : RequestSend(c)
    \/ \E c \in Callers : RequestComplete(c)
    \/ \E c \in Callers : RequestTimeout(c)
    \/ StdinWrite
    \/ StdinWriteFail
    \/ StdinTaskAbort
    \/ \E frame \in CoreFrames : StdoutRead(frame)
    \/ StdoutFail
    \/ HandleOutputClosed
    \/ OutputTaskAbort
    \/ (kill_results = <<>> /\ Kill)

\* Spec follows one kill() call; SpecIo below follows kill() called again.
Spec == Init /\ [][Next]_vars

\* window/showMessage is a notification, workspace/configuration a request
\* that may also come without an id, or with params that do not decode.
RegFrames ==
    {fr \in MessageFrames :
        \/ fr.params = "ok"
             /\ (fr.id = NoId \/ fr.method = "workspace/configuration")
        \/ fr.params = "bad"
             /\ fr.id # NoId /\ fr.method = "workspace/configuration"}

NextReg ==
    \/ \E m \in HandlerMethods : OnNotification(m)
    \/ \E m \in HandlerMethods : OnRequest(m)
    \/ OnIo
    \/ \E s \in 1..MaxRegs : Detach(s)
    \/ \E s \in 1..MaxRegs : DropSubscription(s)
    \/ \E frame \in RegFrames : StdoutRead(frame)
    \/ \E ok \in BOOLEAN : HandleOutput(ok)
    \/ \E r \in responders : ResponderSend(r)

SpecReg == Init /\ [][NextReg]_vars

(***************************************************************************)
(* SpecIo: the outbound path.  A request(), notify() and the responses of  *)
(* a request handler share the outbound queue.                             *)
(***************************************************************************)
IoFrames ==
    {fr \in MessageFrames :
        fr.method = "workspace/configuration" /\ fr.id # NoId}

KillFrames == {fr \in ResponseFrames : fr.id = IntId(0) /\ fr.result = "obj"}

\* SpecIo, SpecObs and SpecKill follow the first request() call.
FirstCaller == {c \in Callers : \A d \in Callers : c <= d}

NextIo ==
    \/ OnRequest("workspace/configuration")
    \/ Notify
    \/ \E c \in FirstCaller : RequestAlloc(c)
    \/ \E c \in FirstCaller : RequestInsert(c)
    \/ \E c \in FirstCaller : RequestSend(c)
    \/ StdinWrite
    \/ StdinWriteFail
    \/ \E frame \in IoFrames : StdoutRead(frame)
    \/ StdoutFail
    \/ HandleOutput(TRUE)
    \/ \E r \in responders : ResponderSend(r)
    \/ HandleOutputClosed

SpecIo == Init /\ [][NextIo]_vars

(***************************************************************************)
(* SpecObs: I/O observers that may panic in any of the three loops, with a *)
(* request() pending and a notify() to write.                              *)
(***************************************************************************)
NextObs ==
    \/ OnIo
    \/ Notify
    \/ \E c \in FirstCaller : RequestAlloc(c)
    \/ \E c \in FirstCaller : RequestInsert(c)
    \/ \E c \in FirstCaller : RequestSend(c)
    \/ StdinWrite
    \/ StdinObserverPanic
    \/ \E frame \in KillFrames : StdoutRead(frame)
    \/ StdoutObserverPanic
    \/ HandleOutputClosed
    \/ StderrObserverPanic

SpecObs == Init /\ [][NextObs]_vars

(***************************************************************************)
(* SpecIds: request() and on_io() calls interleaved on the shared counter, *)
(* with Responses completing the pending requests.                         *)
(***************************************************************************)
NextIds ==
    \/ \E c \in Callers : RequestAlloc(c)
    \/ \E c \in Callers : RequestInsert(c)
    \/ \E c \in Callers : RequestSend(c)
    \/ \E c \in Callers : RequestComplete(c)
    \/ OnIo
    \/ StdinWrite
    \/ \E frame \in ResponseFrames : StdoutRead(frame)

SpecIds == Init /\ [][NextIds]_vars

(***************************************************************************)
(* SpecWire: the reader loop on the bytes of the subprocess's stdout.      *)
(* SpecFirst: the first request() of a fresh connection and the frames     *)
(* that answer it.                                                         *)
(***************************************************************************)
NextWire ==
    \/ \E chunk \in Chunks : ServerWrites(chunk)
    \/ StdoutCloses
    \/ StdoutReadBytes
    \/ StdoutReadFails

SpecWire == Init /\ [][NextWire]_vars

FirstChunks ==
    {Framed(InitializeOkBody), Framed(<<"a">>), Raw(ShortDeclaredFrame)}

NextFirst ==
    \/ \E c \in FirstCaller : RequestAlloc(c)
    \/ \E c \in FirstCaller : RequestInsert(c)
    \/ \E c \in FirstCaller : RequestSend(c)
    \/ \E c \in FirstCaller : RequestComplete(c)
    \/ \E c \in FirstCaller : RequestTimeout(c)
    \/ StdinWrite
    \/ \E chunk \in FirstChunks : ServerWrites(chunk)
    \/ StdoutCloses
    \/ StdoutReadBytes
    \/ StdoutReadFails

SpecFirst == Init /\ [][NextFirst]_vars

(***************************************************************************)
(* SpecRm: handlers registered, removed with remove_notification_handler   *)
(* and registered again, with notifications arriving in between.           *)
(***************************************************************************)
RmFrames ==
    {fr \in MessageFrames :
        fr.method = "window/showMessage" /\ fr.id = NoId /\ fr.params = "ok"}

NextRm ==
    \/ \E m \in HandlerMethods : OnNotification(m)
    \/ \E m \in HandlerMethods : RemoveNotificationHandler(m)
    \/ \E frame \in RmFrames : StdoutRead(frame)
    \/ HandleOutput(TRUE)

SpecRm == Init /\ [][NextRm]_vars

(***************************************************************************)
(* SpecLock: handlers and observers whose code may call back into the      *)
(* connection, with messages arriving and a notify() to write.  A call     *)
(* from another thread that needs a table waits while a task sits on its   *)
(* guard.                                                                  *)
(***************************************************************************)
LockFrames ==
    {fr \in MessageFrames : fr.method = "window/showMessage" /\ fr.params = "ok"}

NextLock ==
    \/ \E m \in HandlerMethods : NotificationHandlersFree /\ OnNotification(m)
    \/ NotificationHandlersFree /\ OnRequest("window/showMessage")
    \/ IoHandlersFree /\ OnIo
    \/ Notify
    \/ StdinWrite
    \/ StdinObserverReenters
    \/ \E frame \in LockFrames : StdoutRead(frame)
    \/ \E ok \in BOOLEAN : HandleOutput(ok)
    \/ \E inner \in HandlerTableCalls : HandleOutputReenters(inner)
    \/ \E r \in responders : ResponderSend(r)

SpecLock == Init /\ [][NextLock]_vars

(***************************************************************************)
(* SpecResp: everything that sends on request_tx: a request(), a notify(), *)
(* and the handlers of on_request, with on_notification handlers beside    *)
(* them and inbound messages with and without an id.  The queue keeps what *)
(* it was handed: the writer takes nothing off it here.                    *)
(***************************************************************************)
NextResp ==
    \/ \E m \in HandlerMethods : OnNotification(m)
    \/ \E m \in HandlerMethods : OnRequest(m)
    \/ Notify
    \/ \E c \in FirstCaller : RequestAlloc(c)
    \/ \E c \in FirstCaller : RequestInsert(c)
    \/ \E c \in FirstCaller : RequestSend(c)
    \/ \E frame \in RegFrames : StdoutRead(frame)
    \/ \E ok \in BOOLEAN : HandleOutput(ok)
    \/ \E r \in responders : ResponderSend(r)

SpecResp == Init /\ [][NextResp]_vars

(***************************************************************************)
(* SpecBody: the reader loop on bodies of every mix of fields, with a      *)
(* request() pending and a notification handler registered.                *)
(***************************************************************************)
NextBody ==
    \/ OnNotification("window/showMessage")
    \/ \E c \in FirstCaller : RequestAlloc(c)
    \/ \E c \in FirstCaller : RequestInsert(c)
    \/ \E c \in FirstCaller : RequestSend(c)
    \/ \E c \in FirstCaller : RequestComplete(c)
    \/ StdinWrite
    \/ \E body \in Bodies : StdoutReadBody(body)
    \/ HandleOutput(TRUE)

SpecBody == Init /\ [][NextBody]_vars

(***************************************************************************)
(* SpecSerial: the dispatch loop with handlers of both kinds registered,   *)
(* removed and registered again while messages of their method wait in     *)
(* the channel.                                                            *)
(***************************************************************************)
NextSerial ==
    \/ \E m \in HandlerMethods : OnNotification(m)
    \/ OnRequest("window/showMessage")
    \/ \E m \in HandlerMethods : RemoveNotificationHandler(m)
    \/ \E frame \in LockFrames : StdoutRead(frame)
    \/ \E ok \in BOOLEAN : HandleOutput(ok)
    \/ \E r \in responders : ResponderSend(r)

SpecSerial == Init /\ [][NextSerial]_vars

(***************************************************************************)
(* SpecKill: kill(), called once or again, on a subprocess that runs or    *)
(* has exited, with a handler and observers registered; the request() and  *)
(* the notify() of this specification are issued after kill() has          *)
(* returned.                                                               *)
(***************************************************************************)
KillCalled == kill_results # <<>>

NextKill ==
    \/ OnRequest("workspace/configuration")
    \/ OnIo
    \/ ProcessExit
    \/ Kill
    \/ (KillCalled /\ Notify)
    \/ (KillCalled /\ \E c \in FirstCaller : RequestAlloc(c))
    \/ \E c \in FirstCaller : RequestInsert(c)
    \/ \E c \in FirstCaller : RequestSend(c)
    \/ \E c \in FirstCaller : RequestComplete(c)
    \/ \E c \in FirstCaller : RequestTimeout(c)
    \/ StdinWrite
    \/ StdinTaskAbort
    \/ \E frame \in KillFrames : StdoutRead(frame)
    \/ OutputTaskAbort
    \/ StderrTaskAbort
    \/ StderrEof

SpecKill == Init /\ [][NextKill]_vars

(***************************************************************************)
(* SpecLive: Spec under the scheduling the runtime provides: the           *)
(* synchronous steps of request() run to the select!, and the 5 s timer of *)
(* timeout_task fires.  Nothing is assumed of the server or of the loops.  *)
(***************************************************************************)
SpecLive ==
    /\ Init
    /\ [][Next]_vars
    /\ \A c \in Callers :
          /\ WF_vars(RequestInsert(c))
          /\ WF_vars(RequestSend(c))
          /\ WF_vars(RequestTimeout(c))

(***************************************************************************)
(* Properties.                                                             *)
(***************************************************************************)
Pending(c) == call[c].id \in DOMAIN response_handlers.map

InQueue(msg) == \E i \in DOMAIN request_queue : request_queue[i] = msg

WasWritten(msg) == \E i \in DOMAIN written : written[i] = msg

FromResponse(kind) == kind \in {"Ok", "Decode", "Rpc"}

\* C1: a request() that ended by timeout returned a TimeoutError and its id
\* is no longer a key of the pending-response table.
C1_TimeoutRemovesEntry ==
    \A c \in Callers :
        (call[c].pc = "done" /\ call[c].outcome = "Timeout") => ~Pending(c)

\* C2: when the pending table is cleared after kill() was called, every
\* outstanding waiter whose entry it held is completed with a ShutdownError.
C2_KillCompletesWithShutdown ==
    [][(process = "killed" /\ response_handlers.some
          /\ ~response_handlers'.some)
         => \A c \in Range(response_handlers.map) :
                call[c].pc = "waiting" => oneshot'[c].kind = "Shutdown"]_vars

Outcomes == {"Ok", "Rpc", "Decode", "Timeout", "Closed"}

\* C3: every request() call that has been issued eventually returns, with
\* one outcome that never changes afterwards, whatever the server, the
\* loops and kill() do.
C3_EveryRequestReturns ==
    /\ \A c \in Callers : (call[c].pc # "idle") ~> (call[c].pc = "done")
    /\ [](\A c \in Callers : call[c].pc = "done" => call[c].outcome \in Outcomes)
    /\ [][\A c \in Callers : call[c].pc = "done" => call'[c] = call[c]]_vars

\* A call returned by timeout after the reader loop had died and kill() had
\* been called.
C3_Witness ==
    \E c \in Callers :
        /\ call[c].pc = "done"
        /\ call[c].outcome = "Timeout"
        /\ task["stdout"] = "ended"
        /\ process = "killed"

\* C4: what a call receives, and what it returns, comes from a Response
\* whose id is the id allocated to that call.
C4_CompletedByOwnId ==
    \A c \in Callers :
        /\ FromResponse(oneshot[c].kind) => oneshot[c].from.id = call[c].id
        /\ (call[c].pc = "done" /\ FromResponse(call[c].outcome))
              => call[c].from.id = call[c].id

\* Two calls in flight, the later one completed by its Response while the
\* earlier one still waits.
C4_Witness ==
    \E c, d \in Callers :
        /\ c < d
        /\ call[c].pc = "waiting"
        /\ Pending(c)
        /\ call[d].pc = "done"
        /\ FromResponse(call[d].outcome)

\* C5: a Response with its error set that matches a pending request hands
\* that request an RpcError, and a call that returns what such a Response
\* delivered returns the RpcError, never a decoded result.
C5_ErrorResponseIsRpcError ==
    \A c \in Callers :
        /\ oneshot[c].from.error => oneshot[c].kind = "Rpc"
        /\ (call[c].pc = "done" /\ call[c].from.error)
              => call[c].outcome = "Rpc"

C5_Witness ==
    \E c \in Callers :
        /\ call[c].pc = "done"
        /\ call[c].from.error
        /\ call[c].outcome = "Rpc"

\* C6: a registration (on_notification or on_request) for a method that
\* already has an entry in the notification-handler table panics.
C6_SecondRegistrationPanics ==
    [][(reg_count' = reg_count + 1
          /\ last_reg'.method \in DOMAIN notification_handlers)
         => last_reg'.result = "panic"]_vars

\* An on_request for a method that on_notification registered has panicked.
C6_Witness ==
    /\ last_reg.op = "on_request"
    /\ last_reg.result = "panic"
    /\ reg_count = 2

\* C7: after a registration has panicked, the table still maps the method
\* to the handler that was there, not to the one of the failed call.
C7_FailedRegistrationKeepsFirst ==
    last_reg.result = "panic"
        => notification_handlers[last_reg.method].f # last_reg.f

SubEntryPresent(s) ==
    IF subs[s].kind = "Notification"
    THEN subs[s].method \in DOMAIN notification_handlers
    ELSE subs[s].id \in DOMAIN io_handlers

\* C8: the step that drops a bound Subscription removes its entry from its
\* table.
C8_DropRemovesEntry ==
    [][\A s \in DOMAIN subs :
          (subs[s].live /\ subs[s].bound /\ ~subs'[s].live)
              => ~SubEntryPresent(s)']_vars

\* C9: detach, and the later drop of a detached Subscription, leave the
\* handler table and the observer table as they were.
C9_DetachKeepsTables ==
    [][\A s \in DOMAIN subs :
          (\/ (subs[s].bound /\ ~subs'[s].bound)
           \/ (~subs[s].bound /\ subs[s].live /\ ~subs'[s].live))
              => /\ notification_handlers' = notification_handlers
                 /\ io_handlers' = io_handlers]_vars

\* A detached Subscription has been dropped and its entry is registered.
C9_Witness ==
    \E s \in DOMAIN subs :
        /\ ~subs[s].bound
        /\ ~subs[s].live
        /\ SubEntryPresent(s)

\* C10: a request() that found the pending table cleared enqueues nothing
\* (its Request is never written) and returns a ShutdownError.
C10_ClearedTableSendsNothing ==
    \A c \in Callers :
        call[c].handle_response = "shutdown" =>
            /\ ~InQueue(RequestMessage(c))
            /\ ~WasWritten(RequestMessage(c))
            /\ call[c].pc = "done" => call[c].outcome = "Shutdown"

\* C11: a request() or notify() issued after kill() has returned is answered
\* with a shutdown error (the ShutdownError, or the closed channel it
\* surfaces as); in particular no notify() returns Ok.  Checked where every
\* request() and notify() is issued after kill().
C11_AfterKillShutdownError ==
    /\ \A c \in Callers :
          call[c].pc = "done" => call[c].outcome \in {"Shutdown", "Closed"}
    /\ \A i \in DOMAIN notifies :
          notifies[i].result \in {"Shutdown", "SendError"}

AbortsLanded == \A t \in abort_req : task[t] # "running"

\* C12: after kill(), once the runtime has cancelled every loop kill()
\* aborted, no frame is read from the subprocess or written to it, no
\* request is completed by a Response and no handler is invoked.
C12_KillStopsAllLoops ==
    [][(KillCalled /\ AbortsLanded)
         => /\ frames_read' = frames_read
            /\ written' = written
            /\ invocations' = invocations
            /\ \A c \in Callers :
                  FromResponse(oneshot'[c].kind) => oneshot'[c] = oneshot[c]]_vars

\* C13: a kill() call leaves the notification-handler table and the
\* I/O-observer table empty.
C13_KillClearsHandlerTables ==
    [][Len(kill_results') > Len(kill_results)
         => /\ notification_handlers' = EmptyMap
            /\ io_handlers' = EmptyMap]_vars

IsPrefix(s, t) == Len(s) <= Len(t) /\ SubSeq(t, 1, Len(s)) = s

\* C15: what has been written to the subprocess is the messages the
\* outbound queue accepted, in the order it accepted them, each once; while
\* the writer lives the rest of them wait in the queue in that order.
C15_WrittenInEnqueueOrder ==
    /\ IsPrefix(written, enqueued)
    /\ RequestRxOpen => enqueued = written \o request_queue

\* A request, a notification and a handler's response have been written.
C15_Witness ==
    /\ \E i \in DOMAIN written : written[i].kind = "request"
    /\ \E i \in DOMAIN written : written[i].kind = "notification"
    /\ \E i \in DOMAIN written : written[i].kind = "response"

\* C16: the invocations of a method's handler follow the order in which
\* the frames of that method arrived, and no frame is invoked twice.
C16_HandlerFifoPerMethod ==
    \A i, j \in DOMAIN invocations :
        (i < j /\ invocations[i].method = invocations[j].method)
            => invocations[i].seq < invocations[j].seq

\* Two frames of one method were both handed to its handler.
C16_Witness ==
    /\ Len(invocations) = 2
    /\ invocations[1].method = invocations[2].method
    /\ invocations[1].seq = 1
    /\ invocations[2].seq = 2

\* C17: reading a framed body that is neither a Response nor a
\* Notification/Request shape, valid UTF-8 or not, leaves the reader loop
\* running.
C17_UnparsedBodyKeepsReader ==
    [][(\E frame \in OtherFrames : StdoutRead(frame))
         => task'["stdout"] = "running"]_vars

\* C18: when the dispatch loop takes a message whose method has no handler,
\* no table changes, nothing is invoked or sent, and the loop keeps running.
C18_UnhandledIsDropped ==
    [][(/\ task["output"] = "running"
        /\ notification_queue # <<>>
        /\ notification_queue' = Tail(notification_queue)
        /\ Head(notification_queue).method \notin DOMAIN notification_handlers)
         => /\ response_handlers' = response_handlers
            /\ notification_handlers' = notification_handlers
            /\ io_handlers' = io_handlers
            /\ invocations' = invocations
            /\ request_queue' = request_queue
            /\ responders' = responders
            /\ task' = task]_vars

\* The first frame found no handler and was dropped; the second frame was
\* then handed to the only handler ever registered.
C18_Witness ==
    /\ reg_count = 1
    /\ \E m \in HandlerMethods :
          /\ DOMAIN notification_handlers = {m}
          /\ notification_handlers[m].kind = "notification"
    /\ frames_read = 2
    /\ notification_queue = <<>>
    /\ Len(invocations) = 1
    /\ invocations[1].seq = 2

\* C19: once a frame-read failure has ended the reader loop, no pending
\* request is completed successfully and no notify() issued afterwards
\* returns Ok.
C19_ReadFailureFailsOperations ==
    /\ [](\A i \in DOMAIN notifies :
             notifies[i].reader = "failed" => notifies[i].result # "Ok")
    /\ [][task["stdout"] = "failed"
            => \A c \in Callers :
                  oneshot'[c].kind = "Ok" => oneshot[c].kind = "Ok"]_vars

\* C20: a step in which an I/O observer panics in the writer, the reader or
\* the stderr loop leaves every loop running and the pending-response table
\* as it was.
C20_ObserverPanicKeepsLoop ==
    [][(StdinObserverPanic \/ StdoutObserverPanic \/ StderrObserverPanic)
         => /\ task' = task
            /\ response_handlers' = response_handlers]_vars

\* The dispatch loop hands a request with an id to a handler that on_request
\* registered.
DispatchesRequest ==
    /\ task["output"] = "running"
    /\ notification_queue # <<>>
    /\ notification_queue' = Tail(notification_queue)
    /\ Head(notification_queue).id # NoId
    /\ Head(notification_queue).method \in DOMAIN notification_handlers
    /\ notification_handlers[Head(notification_queue).method].kind = "request"

C21_WitnessDecode ==
    /\ frames_read = 1
    /\ notification_queue = <<>>
    /\ invocations = <<>>
    /\ responders = {}
    /\ enqueued = <<[kind |-> "response", id |-> IntId(0), method |-> "none",
                     value |-> "error"]>>

\* C22: a notify() call leaves the pending-response table and the id counter
\* as they were; with the outbound queue open it returns Ok and appends one
\* Notification envelope without an id, with the queue closed it returns an
\* error and enqueues nothing.
C22_NotifyEnqueuesOne ==
    [][Len(notifies') = Len(notifies) + 1 =>
          /\ response_handlers' = response_handlers
          /\ next_id' = next_id
          /\ IF RequestRxOpen
             THEN /\ notifies'[Len(notifies')].result = "Ok"
                  /\ \E msg \in {NotificationMessage} :
                        /\ msg.kind = "notification"
                        /\ msg.id = NoId
                        /\ request_queue' = Append(request_queue, msg)
                        /\ enqueued' = Append(enqueued, msg)
             ELSE /\ notifies'[Len(notifies')].result # "Ok"
                  /\ request_queue' = request_queue
                  /\ enqueued' = enqueued]_vars

\* A notify() returned Ok with a request pending, and its envelope has
\* been written.
C22_Witness ==
    /\ Len(notifies) = 1
    /\ notifies[1].result = "Ok"
    /\ WasWritten(NotificationMessage)
    /\ \E c \in Callers : call[c].pc = "waiting" /\ Pending(c)

\* A notify() on a closed queue returned the error.
C22_WitnessClosed ==
    /\ Len(notifies) = 1
    /\ notifies[1].result = "SendError"
    /\ ~RequestRxOpen

\* C23: the counter never decreases, no two request() calls hold the same
\* id, no two pending entries belong to one id, and no insertion into the
\* pending table finds its key already there, with on_io() calls drawing
\* from the same counter in between.
C23_RequestIdsUnique ==
    /\ [](\A c, d \in Callers :
             (c # d /\ call[c].pc # "idle" /\ call[d].pc # "idle")
                 => call[c].id # call[d].id)
    /\ [](\A k \in DOMAIN response_handlers.map :
             call[response_handlers.map[k]].id = k)
    /\ [][next_id' >= next_id]_vars
    /\ [][\A c \in Callers :
            (call[c].pc = "insert" /\ call'[c].pc = "send"
               /\ response_handlers.some)
                => InsertKey(c) \notin DOMAIN response_handlers.map]_vars

\* Two requests are pending at once, an on_io() having taken the id
\* between theirs.
C23_Witness ==
    /\ \A c \in Callers : call[c].pc # "idle" => Pending(c)
    /\ \E c, d \in Callers :
          /\ call[c].pc = "waiting"
          /\ call[d].pc = "waiting"
          /\ call[d].id.n = call[c].id.n + 2
          /\ (call[c].id.n + 1) \in DOMAIN io_handlers

HasEntry(id) == response_handlers.some /\ id \in DOMAIN response_handlers.map

\* C24: reading a Response whose id has no entry in the pending table (the
\* table cleared included) changes no table, completes no request and
\* leaves every loop running.
C24_UnmatchedResponseDiscarded ==
    [][\/ /\ response_handlers' = response_handlers
          /\ notification_handlers' = notification_handlers
          /\ io_handlers' = io_handlers
          /\ oneshot' = oneshot
          /\ call' = call
          /\ task' = task
       \/ ~(/\ frames_read' # frames_read
             /\ \E frame \in ResponseFrames :
                   ~HasEntry(frame.id) /\ StdoutRead(frame))]_vars

\* Two Responses for the id of the only request were read: the request
\* returned what one of them carried, the other found no entry, and the
\* reader is still running.
C24_Witness ==
    /\ frames_read = 2
    /\ task["stdout"] = "running"
    /\ \E c \in FirstCaller :
          /\ call[c].pc = "done"
          /\ call[c].outcome = "Ok"
    /\ \A c \in Callers \ FirstCaller : call[c].pc = "idle"

\* The argument stdout_task would build for a Response whose result is the
\* JSON text null.
NullResult == [ok |-> TRUE, text |-> "null"]

\* C25: a Response with neither result nor error that matches a pending
\* request removes the entry and completes the request with what decoding
\* the JSON text null into the method's result type gives; it is never
\* completed through the error path and the frame is not discarded.
C25_NeitherFieldIsNull ==
    [][frames_read' # frames_read =>
        \A id \in DOMAIN response_handlers.map :
           LET frame == [shape |-> "response", id |-> id, method |-> "none",
                         result |-> "absent", error |-> FALSE,
                         params |-> "none"]
               c == response_handlers.map[id]
           IN (HasEntry(id) /\ StdoutRead(frame))
                => /\ frame \in ResponseFrames
                   /\ id \notin DOMAIN response_handlers'.map
                   /\ oneshot[c].kind = "empty"
                        => /\ oneshot'[c].kind =
                                 CallbackResponse(call[c].method, NullResult)
                           /\ oneshot'[c].kind # "Rpc"
                           /\ oneshot'[c].from.id = id]_vars

\* A shutdown request, whose result type decodes from null, returned
\* success from a Response that carried neither field.
C25_Witness ==
    \E c \in Callers :
       /\ call[c].method = "shutdown"
       /\ call[c].pc = "done"
       /\ call[c].outcome = "Ok"
       /\ call[c].from.id = call[c].id
       /\ ~call[c].from.error

\* The frame of the scenario with the length of its body, 36.
ExactDeclaredFrame == Header(<<"3", "6">>) \o InitializeOkBody

\* The reader acts on a pipe that holds exactly `bytes` while the
\* initialize request with id 0 waits for its response: the body it takes
\* is the whole JSON text and the request is completed with success.
ScenarioReturnsSuccess(bytes) ==
    \A c \in FirstCaller :
       (/\ wire.stream = bytes
        /\ HasEntry(IntId(0))
        /\ response_handlers.map[IntId(0)] = c
        /\ call[c].method = "initialize"
        /\ oneshot[c].kind = "empty"
        /\ (frames_read' # frames_read \/ task'["stdout"] # task["stdout"]))
         => /\ oneshot'[c].kind = "Ok"
            /\ wire'.bodies = Append(wire.bodies, InitializeOkBody)
            /\ ~HasEntry(IntId(0))'

C26_WitnessShort ==
    /\ wire.fed = <<Raw(ShortDeclaredFrame)>>
    /\ Len(wire.bodies) = 1
    /\ Len(wire.bodies[1]) = 34
    /\ \E c \in FirstCaller :
          /\ call[c].pc = "done"
          /\ call[c].outcome = "Timeout"
          /\ HasEntry(IntId(0))

\* Every chunk the subprocess wrote is a body framed as the writer frames.
AllFramed == \A i \in 1..Len(wire.fed) : wire.fed[i].framed

\* The bytes of a sequence of chunks, concatenated.
RECURSIVE BytesOf(_)
BytesOf(chunks) ==
    IF chunks = <<>> THEN <<>>
    ELSE Head(chunks).bytes \o BytesOf(Tail(chunks))

\* C27: when the stream is a concatenation of bodies framed as the writer
\* frames them, the bodies the reader has taken are the first of them, in
\* order and byte for byte; the unread stream is the concatenation of the
\* frames not yet taken, so every read consumed exactly one frame; the
\* next read yields the next body; and the reader fails only at the end of
\* a closed stream.
C27_FramingRoundTrip ==
    AllFramed =>
       LET n == Len(wire.bodies)
       IN /\ n <= Len(wire.fed)
          /\ \A i \in 1..n : wire.bodies[i] = wire.fed[i].body
          /\ wire.stream = BytesOf(SubSeq(wire.fed, n + 1, Len(wire.fed)))
          /\ n < Len(wire.fed)
               => /\ ReadFrame(wire.stream).kind = "frame"
                  /\ ReadFrame(wire.stream).body = wire.fed[n + 1].body
          /\ task["stdout"] = "failed" => (wire.stream = <<>> /\ wire.eof)

\* Two frames were written and read back, the body of the first
\* being the delimiter itself and the body of the second a text that looks
\* like a frame (its length takes two digits); both were read back.
C27_Witness ==
    /\ AllFramed
    /\ Len(wire.fed) = 2
    /\ wire.bodies =
          <<HEADER_DELIMITER,
            CONTENT_LEN_HEADER \o <<"1">> \o HEADER_DELIMITER \o <<"a">>>>
    /\ wire.stream = <<>>
    /\ frames_read = 2

\* The positions at which an occurrence of the delimiter ends.
DelimiterEnds(stream) ==
    {i \in 4..Len(stream) : SubSeq(stream, i - 3, i) = HEADER_DELIMITER}

\* The header block: the stream up to the end of the first delimiter.
HeaderBlock(stream) ==
    SubSeq(stream, 1, CHOOSE i \in DelimiterEnds(stream) :
                         \A j \in DelimiterEnds(stream) : i <= j)

\* The positions of the block at which a line starts with the token.
TokenLines(block) ==
    {i \in 1..Len(block) :
        /\ i = 1 \/ block[i - 1] = "\n"
        /\ i + Len(CONTENT_LEN_HEADER) - 1 <= Len(block)
        /\ SubSeq(block, i, i + Len(CONTENT_LEN_HEADER) - 1)
             = CONTENT_LEN_HEADER}

\* What follows the token on the first such line, up to the line's end.
LengthText(block) ==
    LET i == CHOOSE k \in TokenLines(block) :
                \A l \in TokenLines(block) : k <= l
        from == i + Len(CONTENT_LEN_HEADER)
        to == CHOOSE k \in from..Len(block) :
                 /\ block[k] = "\n"
                 /\ \A l \in from..(k - 1) : block[l] # "\n"
    IN SubSeq(block, from, to - 1)

\* A non-negative decimal integer: digits, at least one, with or without
\* a plus sign in front; white space may follow it on the line.
ValidLength(text) ==
    \E a \in 0..1 : \E k \in (a + 1)..Len(text) :
       /\ a = 1 => text[1] = "+"
       /\ \A i \in (a + 1)..k : IsDigit(text[i])
       /\ \A i \in (k + 1)..Len(text) : text[i] \in WhiteSpace

StreamEndsBeforeDelimiter ==
    wire.eof /\ DelimiterEnds(wire.stream) = {}

NoContentLengthLine ==
    /\ DelimiterEnds(wire.stream) # {}
    /\ TokenLines(HeaderBlock(wire.stream)) = {}

LengthNotANumber ==
    /\ DelimiterEnds(wire.stream) # {}
    /\ TokenLines(HeaderBlock(wire.stream)) # {}
    /\ ~ValidLength(LengthText(HeaderBlock(wire.stream)))

\* C28: with the stream ended before the delimiter, or a header block in
\* which no line starts with Content-Length: , or a value after the token
\* that is not a non-negative decimal integer, the read the loop makes
\* fails: the loop ends with the error, no body is taken, no request is
\* completed and nothing is dispatched.
C28_FramingErrors ==
    /\ []((/\ task["stdout"] = "running"
           /\ (StreamEndsBeforeDelimiter \/ NoContentLengthLine
                  \/ LengthNotANumber))
             => /\ ReadFrame(wire.stream).kind = "error"
                /\ ReadFrame(wire.stream).at_eof => wire.eof)
    /\ [][(/\ (StreamEndsBeforeDelimiter \/ NoContentLengthLine
                  \/ LengthNotANumber)
            /\ (frames_read' # frames_read
                   \/ task'["stdout"] # task["stdout"]))
             => /\ task'["stdout"] = "failed"
                /\ frames_read' = frames_read
                /\ wire'.bodies = wire.bodies
                /\ oneshot' = oneshot
                /\ response_handlers' = response_handlers
                /\ notification_queue' = notification_queue]_vars

\* The reader failed on Content-Length: -1.
C28_Witness ==
    /\ wire.fed = <<Raw(Header(<<"-", "1">>) \o <<"a">>)>>
    /\ LengthNotANumber
    /\ task["stdout"] = "failed"
    /\ wire.bodies = <<>>

\* The reader failed on a stream closed in the middle of the header.
C28_WitnessNoDelimiter ==
    /\ wire.fed = <<Raw(CONTENT_LEN_HEADER \o <<"1", "\r", "\n">>)>>
    /\ StreamEndsBeforeDelimiter
    /\ task["stdout"] = "failed"
    /\ wire.bodies = <<>>

\* The reader failed on a header whose only line has the token in lower
\* case.
C28_WitnessNoLine ==
    /\ Len(wire.fed) = 1
    /\ wire.fed[1].bytes[1] = "c"
    /\ NoContentLengthLine
    /\ task["stdout"] = "failed"
    /\ wire.bodies = <<>>

\* C29: remove_notification_handler(m) leaves no entry for m and leaves the
\* entries of the other methods alone, so has_notification_handler(m),
\* which is true exactly when the table holds an entry for m, is false
\* after it; while m has no entry a notification for m taken off the
\* channel invokes no handler and sends nothing, and on_notification(m)
\* succeeds and installs its handler.
C29_RemoveThenHas ==
    /\ [](\A m \in HandlerMethods :
             HasNotificationHandler(m) <=> m \in DOMAIN notification_handlers)
    /\ [][\A m \in HandlerMethods :
            RemoveNotificationHandler(m)
              => /\ ~HasNotificationHandler(m)'
                 /\ \A k \in HandlerMethods \ {m} :
                       /\ HasNotificationHandler(k)' = HasNotificationHandler(k)
                       /\ HasNotificationHandler(k)
                            => notification_handlers'[k]
                                 = notification_handlers[k]]_vars
    /\ [][\A m \in HandlerMethods :
            (/\ ~HasNotificationHandler(m)
             /\ notification_queue # <<>>
             /\ Head(notification_queue).method = m
             /\ notification_queue' = Tail(notification_queue))
              => /\ invocations' = invocations
                 /\ request_queue' = request_queue]_vars
    /\ [][\A m \in HandlerMethods :
            (~HasNotificationHandler(m) /\ OnNotification(m))
              => /\ last_reg'.result = "ok"
                 /\ HasNotificationHandler(m)'
                 /\ notification_handlers'[m].f = last_reg'.f]_vars

\* The first notification went to the handler registered for its method;
\* the handler was then removed and the second notification, taken off the
\* channel after that, invoked nothing.
C29_Witness ==
    /\ frames_read = 2
    /\ notification_queue = <<>>
    /\ Len(invocations) = 1
    /\ invocations[1].seq = 1
    /\ invocations[1].method = "window/showMessage"
    /\ last_reg.op = "remove_notification_handler"
    /\ last_reg.method = "window/showMessage"
    /\ ~HasNotificationHandler("window/showMessage")

\* A handler was registered for the method, removed, and a second one
\* registered without failing: the notification went to the second.
C29_WitnessAgain ==
    /\ reg_count = 2
    /\ last_reg.op = "on_notification"
    /\ last_reg.result = "ok"
    /\ DOMAIN notification_handlers = {"window/showMessage"}
    /\ notification_handlers["window/showMessage"].f = 2
    /\ Len(invocations) = 2
    /\ invocations[1].f = 1
    /\ invocations[2].f = 2

\* The on_io() calls made so far.
IoSubs == {s \in DOMAIN subs : subs[s].kind = "Io"}

\* C30: an on_io() call inserts under a key no observer holds, keeps every
\* observer already in the table and adds one, so the table holds one
\* observer per on_io() call; and the round of observer calls a loop makes,
\* for a message the writer takes or a frame the reader reports, calls
\* every one of them.
C30_FreshObserverKey ==
    /\ [][(reg_count' # reg_count /\ OnIo)
             => /\ next_id \notin DOMAIN io_handlers
                /\ \A k \in DOMAIN io_handlers :
                      /\ k \in DOMAIN io_handlers'
                      /\ io_handlers'[k] = io_handlers[k]
                /\ Cardinality(DOMAIN io_handlers')
                     = Cardinality(DOMAIN io_handlers) + 1]_vars
    /\ [](/\ Cardinality(DOMAIN io_handlers) = Cardinality(IoSubs)
          /\ \A s \in IoSubs : subs[s].id \in DOMAIN io_handlers)
    /\ [][(/\ task' = task
            /\ (written' # written \/ frames_read' # frames_read))
             => \A kind \in {"In", "Out"} :
                   Cardinality(IoRound(kind).fs) = Cardinality(IoSubs)]_vars

\* Two observers are registered, the only request() having taken the
\* number between their keys and returned with its Response.
C30_Witness ==
    /\ DOMAIN io_handlers = {0, 2}
    /\ io_handlers[0] # io_handlers[2]
    /\ \E c \in Callers :
          /\ call[c].id = IntId(1)
          /\ call[c].pc = "done"
          /\ call[c].outcome = "Ok"
    /\ \A c \in Callers : call[c].pc # "idle" => call[c].id = IntId(1)


(***************************************************************************)
(* C31                                                                     *)
(***************************************************************************)
\* C31: the observers are called with direction out for every message the
\* writer loop writes, with direction in for every frame the reader loop
\* reads, and with direction err for every line of stderr.
C31_ObserverDirections ==
    /\ [][io_handlers # EmptyMap =>
              /\ written' # written => StdinRound.kind = "Out"
              /\ frames_read' # frames_read =>
                     \A frame \in ResponseFrames \cup MessageFrames
                                     \cup OtherFrames :
                         StdoutRead(frame) =>
                             StdoutRound(frame).kind = "In"]_vars
    /\ [](StderrRound("text").kind = "Err")

(***************************************************************************)
(* C32                                                                     *)
(***************************************************************************)
\* C32: no table lock is held while a handler or an observer of the caller
\* runs, so caller code that registers a handler or an observer during its
\* own invocation cannot deadlock the loop that invoked it.
C32_NoLockAroundCallerCode ==
    /\ NotificationHandlersFree
    /\ IoHandlersFree


(***************************************************************************)
(* C33                                                                     *)
(***************************************************************************)
\* C33: the pending table holds an entry of a request() only once its
\* Request has been handed to the outbound queue, never before; when the
\* hand-over failed because the queue is closed, it holds none.
C33_EntryOnlyOnceEnqueued ==
    \A id \in DOMAIN response_handlers.map :
        LET c == response_handlers.map[id]
        IN /\ call[c].pc \in {"waiting", "done"}
           /\ InQueue(RequestMessage(c)) \/ WasWritten(RequestMessage(c))


(***************************************************************************)
(* C34                                                                     *)
(***************************************************************************)
\* The calls whose callback is in the pending table.
Entries == Range(response_handlers.map)

\* The oneshot of call c has been resolved, by its callback or by the drop
\* of its callback.
Resolved(c) == oneshot[c].kind # "empty"

\* C34: every entry of the pending table is consumed exactly once.  Its
\* callback is called at most once: what it delivered is never replaced, and
\* an entry that has left the table does not come back.  A Response that
\* matches an entry removes it, and a teardown of the table removes every
\* entry that is left and resolves its waiter.
C34_EntryConsumedOnce ==
    /\ [](~response_handlers.some => Entries = {})
    /\ [][/\ \A c \in Callers :
                /\ Resolved(c) =>
                       oneshot'[c] \in {oneshot[c], DroppedOneshot}
                /\ (call[c].pc \in {"send", "waiting", "done"}
                      /\ c \notin Entries) =>
                       c \notin Range(response_handlers'.map)
          /\ frames_read' # frames_read =>
                 \A id \in DOMAIN response_handlers.map :
                     \/ /\ id \notin DOMAIN response_handlers'.map
                        /\ \A c \in {response_handlers.map[id]} :
                               oneshot'[c].kind # "empty"
                     \/ \A frame \in ResponseFrames :
                            frame.id = id => ~StdoutRead(frame)
          /\ (response_handlers.some /\ ~response_handlers'.some) =>
                 \A c \in Entries : oneshot'[c].kind # "empty"]_vars

\* A second Response with the id of a request that a first Response has
\* completed was read, and the table was torn down afterwards.
C34_Witness ==
    /\ frames_read = 2
    /\ ~response_handlers.some
    /\ \E c \in Callers :
          /\ call[c].pc = "done"
          /\ FromResponse(call[c].outcome)

\* The teardown consumed the entry of a request no Response had answered.
C34_WitnessTeardown ==
    /\ ~response_handlers.some
    /\ frames_read = 0
    /\ \E c \in Callers :
          /\ call[c].pc = "done"
          /\ call[c].handle_response = "ok"
          /\ call[c].outcome = "Closed"


(***************************************************************************)
(* C35                                                                     *)
(***************************************************************************)
\* The message a step hands to the outbound queue, if it hands one.
SentMessages ==
    IF Len(enqueued') = Len(enqueued) + 1
    THEN {enqueued'[Len(enqueued')]}
    ELSE {}

\* The dispatch loop is calling a handler stored by on_request with an
\* inbound message that carries the id.
RequestHandlerCalledFor(id) ==
    /\ notification_queue # <<>>
    /\ notification_queue' = Tail(notification_queue)
    /\ LET msg == Head(notification_queue)
       IN /\ msg.id = id
          /\ msg.method \in DOMAIN notification_handlers
          /\ notification_handlers[msg.method].kind = "request"

\* A handler stored by on_request was called with a message that carries
\* the id, and the caller's closure ran.
RequestHandlerRanFor(id, seq) ==
    \E i \in DOMAIN invocations :
        /\ invocations[i].id = id
        /\ invocations[i].seq = seq
        /\ invocations[i].returns \in {"Ok", "Err"}

\* C35: a Response is handed to the outbound queue only by a handler that
\* on_request registered, called with an inbound message that carries an
\* id, or by the task that handler spawned; the Response carries that id.
\* request() and notify() hand over a Request and a Notification.
C35_ResponsesComeFromRequestHandlers ==
    /\ [](\A r \in responders :
              /\ r.msg.id # NoId
              /\ RequestHandlerRanFor(r.msg.id, r.seq))
    /\ [][\A msg \in SentMessages :
              /\ msg.kind = "response" =>
                     /\ msg.id # NoId
                     /\ \/ RequestHandlerCalledFor(msg.id)
                        \/ \E r \in responders \ responders' : r.msg = msg
              /\ (\E c \in Callers : call'[c] # call[c]) =>
                     msg.kind = "request"
              /\ notifies' # notifies => msg.kind = "notification"]_vars

\* Two Responses were handed over, one by the task a request handler
\* spawned and one by the handler itself for params it could not decode,
\* beside the Request of a request() and the Notification of a notify().
C35_Witness ==
    /\ \E i, j \in DOMAIN enqueued :
          /\ enqueued[i].kind = "response" /\ enqueued[i].value = "result"
          /\ enqueued[j].kind = "response" /\ enqueued[j].value = "error"
          /\ i # j
    /\ \E i \in DOMAIN enqueued : enqueued[i].kind = "request"
    /\ \E i \in DOMAIN enqueued : enqueued[i].kind = "notification"


(***************************************************************************)
(* C36                                                                     *)
(***************************************************************************)
\* C36: the classification of a body never ends the reader loop; a body
\* with a method field is forwarded to the dispatch channel and completes no
\* pending request, whatever else it carries; a body without a method field
\* is never forwarded to the dispatch channel.
C36_MethodFieldDecidesRoute ==
    [][frames_read' # frames_read =>
           \A body \in Bodies :
               StdoutReadBody(body) =>
                   /\ task'["stdout"] = "running"
                   /\ body.method # "absent" =>
                          /\ Len(notification_queue') =
                                 Len(notification_queue) + 1
                          /\ response_handlers' = response_handlers
                          /\ oneshot' = oneshot
                   /\ body.method = "absent" =>
                          notification_queue' = notification_queue]_vars


(***************************************************************************)
(* C37                                                                     *)
(***************************************************************************)
\* The loops whose task owns a drop guard on the pending table.
GuardedLoops == {"stdin", "output"}

\* C37: when the writer loop or the dispatch loop stops running, for
\* whatever reason, the pending table is cleared in the same step and every
\* request that was waiting on an entry of it is released: its receiver is
\* closed, and the call returns that error without its timer.
C37_LoopEndReleasesPending ==
    /\ [][\A t \in GuardedLoops :
              (task[t] = "running" /\ task'[t] # "running") =>
                  /\ response_handlers' = TakenTable
                  /\ \A c \in Entries :
                         oneshot[c].kind = "empty" =>
                             oneshot'[c] = ClosedOneshot]_vars
    /\ [](\A c \in Callers :
              (call[c].pc = "waiting" /\ oneshot[c].kind = "closed") =>
                  ENABLED RequestComplete(c))
    /\ [][\A c \in Callers :
              (oneshot[c].kind = "closed" /\ RequestComplete(c)) =>
                  call'[c].outcome = "Closed"]_vars

\* The writer ended on a write error, without kill(), and a request that
\* had its entry in the table returned the error of the closed receiver.
C37_Witness ==
    /\ task["stdin"] = "ended"
    /\ process = "running"
    /\ abort_req = {}
    /\ \E c \in Callers :
          /\ call[c].pc = "done"
          /\ call[c].handle_response = "ok"
          /\ call[c].outcome = "Closed"

\* The dispatch loop ended because the reader had ended, with the writer
\* still running, and released a request in the same way.
C37_WitnessDispatch ==
    /\ task["output"] = "ended"
    /\ task["stdin"] = "running"
    /\ task["stdout"] # "running"
    /\ abort_req = {}
    /\ \E c \in Callers :
          /\ call[c].pc = "done"
          /\ call[c].handle_response = "ok"
          /\ call[c].outcome = "Closed"


(***************************************************************************)
(* C38                                                                     *)
(***************************************************************************)
\* C38: once the pending table has been taken it stays None and empty: no
\* step makes it Some again and no request() stores a callback in it; a
\* request() that finds it None returns an error, never what a Response
\* carried.
C38_ShutdownIsAbsorbing ==
    /\ [](~response_handlers.some => response_handlers.map = EmptyMap)
    /\ [][~response_handlers.some =>
              response_handlers' = response_handlers]_vars
    /\ [][\A c \in Callers :
              (~response_handlers.some /\ call[c].pc = "insert"
                 /\ call'[c].pc # "insert") =>
                  /\ call'[c].handle_response = "shutdown"
                  /\ oneshot'[c] = ClosedOneshot]_vars
    /\ [](\A c \in Callers :
              (call[c].handle_response = "shutdown" /\ call[c].pc = "done") =>
                  call[c].outcome \in {"Closed", "Timeout"})

\* A request() issued after the table had been taken has returned the
\* error of the closed receiver, and a Response with its id was read.
C38_Witness ==
    /\ ~response_handlers.some
    /\ \E c \in Callers :
          /\ call[c].handle_response = "shutdown"
          /\ call[c].pc = "done"
          /\ call[c].outcome = "Closed"
          /\ frames_read > 0


(***************************************************************************)
(* C39                                                                     *)
(***************************************************************************)
\* C39: the dispatch loop calls at most one handler per message it takes
\* off the channel, one message at a time, so the calls are a sequence in
\* which none starts before the one before it returned; the handler called
\* for a message is the one the table holds for its method when the message
\* is taken, so a handler removed before that is not called for it.
C39_OneHandlerAtATime ==
    [][invocations' # invocations =>
           /\ notification_queue # <<>>
           /\ notification_queue' = Tail(notification_queue)
           /\ LET msg == Head(notification_queue)
                  last == invocations'[Len(invocations')]
              IN /\ invocations' = Append(invocations, last)
                 /\ last.seq = msg.seq
                 /\ last.method = msg.method
                 /\ HasNotificationHandler(msg.method)
                 /\ last.f = notification_handlers[msg.method].f]_vars

\* The only handler ever registered, a notification handler, was called
\* for the first message and removed before the second was taken: the
\* second was dropped without a call.
C39_Witness ==
    /\ reg_count = 1
    /\ last_reg.op = "remove_notification_handler"
    /\ notification_handlers = EmptyMap
    /\ frames_read = 2
    /\ notification_queue = <<>>
    /\ Len(invocations) = 1
    /\ invocations[1].returns = "none"
    /\ invocations[1].seq = 1


(***************************************************************************)
(* C40                                                                     *)
(***************************************************************************)
\* The dispatch loop takes a message whose method has a handler.
Dispatches ==
    /\ task["output"] = "running"
    /\ notification_queue # <<>>
    /\ notification_queue' = Tail(notification_queue)
    /\ HasNotificationHandler(Head(notification_queue).method)

\* C40: a message without an id given to a handler stored by on_request
\* calls nothing and sends nothing; a message with an id given to a handler
\* stored by on_notification calls the caller's closure (its params
\* deserialize) and sends nothing: no Response for that id is queued or left
\* to a spawned task.
C40_KindsMustAgree ==
    [][Dispatches =>
           LET msg == Head(notification_queue)
               h == notification_handlers[msg.method]
               silent == /\ request_queue' = request_queue
                         /\ enqueued' = enqueued
                         /\ responders' = responders
           IN /\ (h.kind = "request" /\ msg.id = NoId) =>
                     /\ invocations' = invocations
                     /\ silent
              /\ (h.kind = "notification" /\ msg.id # NoId) =>
                     /\ msg.params = "ok" =>
                            /\ Len(invocations') = Len(invocations) + 1
                            /\ invocations'[Len(invocations')].f = h.f
                            /\ invocations'[Len(invocations')].id = msg.id
                            /\ invocations'[Len(invocations')].returns = "none"
                     /\ silent]_vars

\* The only handler ever registered came from on_request and is still in
\* the table; it was called for the first message and has answered it; the
\* second message, which had no id, was taken and called nothing.
C40_Witness ==
    /\ reg_count = 1
    /\ last_reg.op = "on_request"
    /\ frames_read = 2
    /\ notification_queue = <<>>
    /\ responders = {}
    /\ Len(invocations) = 1
    /\ invocations[1].seq = 1
    /\ Len(enqueued) = 1

\* A handler stored by on_notification was called with a message that
\* carried an id, and nothing has been sent.
C40_WitnessNotification ==
    /\ \E i \in DOMAIN invocations :
          /\ invocations[i].id # NoId
          /\ invocations[i].returns = "none"
    /\ notification_queue = <<>>
    /\ responders = {}
    /\ enqueued = <<>>

=============================================================================
